---- MODULE Spec2Model ----
(***************************************************************************)
(* Payroll-area configuration engine of turboSAP: the question router,     *)
(* the calendar-combination resolver and the payroll-area generator of     *)
(* backend/app/agents/payroll/payroll_area_graph.py, and the question      *)
(* router and generator of                                                 *)
(* backend/app/agents/payments/payment_method_graph.py, and the master     *)
(* router of backend/app/agents/graph.py that runs the two modules.        *)
(*                                                                         *)
(* Python strings are sequences of one-character strings, so that          *)
(* replace, slicing, capitalize, split, strip and join are computed and    *)
(* not assumed.  An answer value is a record [t, v]: t = "str" with v the  *)
(* characters, or t = "list" with v a sequence of strings.                 *)
(***************************************************************************)
EXTENDS Integers, Sequences, FiniteSets, TLC

VARIABLES
  answers,              \* state["answers"]: question id -> answer value
  current_question_id,  \* state["current_question_id"]
  current_question,     \* state["current_question"] (dynamic question object)
  payroll_areas,        \* state["payroll_areas"]
  payment_methods,      \* state["payment_methods"]
  done,                 \* state["done"]
  module,               \* the graph the session is run through
  current_module,       \* state["current_module"] of the master graph
  completed_modules,    \* state["completed_modules"] of the master graph
  export,               \* an export request: the area, the years, the file generated
  config,               \* the question catalog files and the last catalog operation
  store,                \* the session layer: stored sessions and requests in flight
  storage               \* the uploaded module payloads of ReachNettDataManager

vars == <<answers, current_question_id, current_question, payroll_areas,
          payment_methods, done, module, current_module, completed_modules,
          export, config, store, storage>>

----------------------------------------------------------------------------
(* Bounds *)

\* most years a schedule is generated for
MaxYears == 2
MaxQuestions == 2
MaxRequests == 2

\* longest q1_frequencies selection a caller submits
MaxSaves == 2
MaxFreqs == 2

----------------------------------------------------------------------------
(* Python strings *)

\* the string literals of the source, each as its sequence of characters
Literals ==
  " " :> <<" ">>
  @@ " (Payday: " :> <<" ", "(", "P", "a", "y", "d", "a", "y", ":", " ">>
  @@ " , " :> <<" ", ",", " ">>
  @@ ")" :> <<")">>
  @@ ".json" :> <<".", "j", "s", "o", "n">>
  @@ "01" :> <<"0", "1">>
  @@ "0123456789" :> <<"0", "1", "2", "3", "4", "5", "6", "7", "8", "9">>
  @@ "1-15_16-end" :> <<"1", "-", "1", "5", "_", "1", "6", "-", "e", "n", "d">>
  @@ "1-end" :> <<"1", "-", "e", "n", "d">>
  @@ "10" :> <<"1", "0">>
  @@ "1000" :> <<"1", "0", "0", "0">>
  @@ "1st-15th & 16th-End" :> <<"1", "s", "t", "-", "1", "5", "t", "h", " ", "&", " ", "1", "6", "t", "h", "-", "E", "n", "d">>
  @@ "1st-End" :> <<"1", "s", "t", "-", "E", "n", "d">>
  @@ "2000" :> <<"2", "0", "0", "0">>
  @@ "20231229" :> <<"2", "0", "2", "3", "1", "2", "2", "9">>
  @@ "2024" :> <<"2", "0", "2", "4">>
  @@ "2024-01-01" :> <<"2", "0", "2", "4", "-", "0", "1", "-", "0", "1">>
  @@ "20240101" :> <<"2", "0", "2", "4", "0", "1", "0", "1">>
  @@ "20240105" :> <<"2", "0", "2", "4", "0", "1", "0", "5">>
  @@ "20240229" :> <<"2", "0", "2", "4", "0", "2", "2", "9">>
  @@ "20241223" :> <<"2", "0", "2", "4", "1", "2", "2", "3">>
  @@ "20241229" :> <<"2", "0", "2", "4", "1", "2", "2", "9">>
  @@ "20250101" :> <<"2", "0", "2", "5", "0", "1", "0", "1">>
  @@ "20250103" :> <<"2", "0", "2", "5", "0", "1", "0", "3">>
  @@ "20250228" :> <<"2", "0", "2", "5", "0", "2", "2", "8">>
  @@ "52" :> <<"5", "2">>
  @@ "80" :> <<"8", "0">>
  @@ ": " :> <<":", " ">>
  @@ "A, B, C, D, E" :> <<"A", ",", " ", "B", ",", " ", "C", ",", " ", "D", ",", " ", "E">>
  @@ "ABCDEFGHIJKLMNOPQRSTUVWXYZ" :> <<"A", "B", "C", "D", "E", "F", "G", "H", "I", "J", "K", "L", "M", "N", "O", "P", "Q", "R", "S", "T", "U", "V", "W", "X", "Y", "Z">>
  @@ "AK" :> <<"A", "K">>
  @@ "Bank A, Bank B" :> <<"B", "a", "n", "k", " ", "A", ",", " ", "B", "a", "n", "k", " ", "B">>
  @@ "Bi-weekly" :> <<"B", "i", "-", "w", "e", "e", "k", "l", "y">>
  @@ "BiWk" :> <<"B", "i", "W", "k">>
  @@ "Business unit: " :> <<"B", "u", "s", "i", "n", "e", "s", "s", " ", "u", "n", "i", "t", ":", " ">>
  @@ "Finance" :> <<"F", "i", "n", "a", "n", "c", "e">>
  @@ "Fri" :> <<"F", "r", "i">>
  @@ "HI" :> <<"H", "I">>
  @@ "IT" :> <<"I", "T">>
  @@ "IT, Finance" :> <<"I", "T", ",", " ", "F", "i", "n", "a", "n", "c", "e">>
  @@ "Mo" :> <<"M", "o">>
  @@ "Mon-Sun" :> <<"M", "o", "n", "-", "S", "u", "n">>
  @@ "Monthly" :> <<"M", "o", "n", "t", "h", "l", "y">>
  @@ "PDAY " :> <<"P", "D", "A", "Y", " ">>
  @@ "PR" :> <<"P", "R">>
  @@ "Pay day: " :> <<"P", "a", "y", " ", "d", "a", "y", ":", " ">>
  @@ "Pay frequency: " :> <<"P", "a", "y", " ", "f", "r", "e", "q", "u", "e", "n", "c", "y", ":", " ">>
  @@ "Period pattern: " :> <<"P", "e", "r", "i", "o", "d", " ", "p", "a", "t", "t", "e", "r", "n", ":", " ">>
  @@ "Region: " :> <<"R", "e", "g", "i", "o", "n", ":", " ">>
  @@ "Semi-monthly" :> <<"S", "e", "m", "i", "-", "m", "o", "n", "t", "h", "l", "y">>
  @@ "SemiMo" :> <<"S", "e", "m", "i", "M", "o">>
  @@ "Sun-Sat" :> <<"S", "u", "n", "-", "S", "a", "t">>
  @@ "Weekly" :> <<"W", "e", "e", "k", "l", "y">>
  @@ "Wkly" :> <<"W", "k", "l", "y">>
  @@ "Z" :> <<"Z">>
  @@ "[]" :> <<"[", "]">>
  @@ "_" :> <<"_">>
  @@ "_pattern" :> <<"_", "p", "a", "t", "t", "e", "r", "n">>
  @@ "_payday" :> <<"_", "p", "a", "y", "d", "a", "y">>
  @@ "abcdefghijklmnopqrstuvwxyz" :> <<"a", "b", "c", "d", "e", "f", "g", "h", "i", "j", "k", "l", "m", "n", "o", "p", "q", "r", "s", "t", "u", "v", "w", "x", "y", "z">>
  @@ "acme" :> <<"a", "c", "m", "e">>
  @@ "active" :> <<"a", "c", "t", "i", "v", "e">>
  @@ "agree" :> <<"a", "g", "r", "e", "e">>
  @@ "alaska" :> <<"a", "l", "a", "s", "k", "a">>
  @@ "application/json" :> <<"a", "p", "p", "l", "i", "c", "a", "t", "i", "o", "n", "/", "j", "s", "o", "n">>
  @@ "beta" :> <<"b", "e", "t", "a">>
  @@ "biweekly" :> <<"b", "i", "w", "e", "e", "k", "l", "y">>
  @@ "business_" :> <<"b", "u", "s", "i", "n", "e", "s", "s", "_">>
  @@ "business_names_" :> <<"b", "u", "s", "i", "n", "e", "s", "s", "_", "n", "a", "m", "e", "s", "_">>
  @@ "business_names_weekly_monsun_friday" :> <<"b", "u", "s", "i", "n", "e", "s", "s", "_", "n", "a", "m", "e", "s", "_", "w", "e", "e", "k", "l", "y", "_", "m", "o", "n", "s", "u", "n", "_", "f", "r", "i", "d", "a", "y">>
  @@ "business_weekly_monsun_friday" :> <<"b", "u", "s", "i", "n", "e", "s", "s", "_", "w", "e", "e", "k", "l", "y", "_", "m", "o", "n", "s", "u", "n", "_", "f", "r", "i", "d", "a", "y">>
  @@ "companyName" :> <<"c", "o", "m", "p", "a", "n", "y", "N", "a", "m", "e">>
  @@ "count" :> <<"c", "o", "u", "n", "t">>
  @@ "disagree" :> <<"d", "i", "s", "a", "g", "r", "e", "e">>
  @@ "extra" :> <<"e", "x", "t", "r", "a">>
  @@ "false" :> <<"f", "a", "l", "s", "e">>
  @@ "first" :> <<"f", "i", "r", "s", "t">>
  @@ "friday" :> <<"f", "r", "i", "d", "a", "y">>
  @@ "geographic_" :> <<"g", "e", "o", "g", "r", "a", "p", "h", "i", "c", "_">>
  @@ "geographic_weekly_monsun_friday" :> <<"g", "e", "o", "g", "r", "a", "p", "h", "i", "c", "_", "w", "e", "e", "k", "l", "y", "_", "m", "o", "n", "s", "u", "n", "_", "f", "r", "i", "d", "a", "y">>
  @@ "hawaii" :> <<"h", "a", "w", "a", "i", "i">>
  @@ "hi" :> <<"h", "i">>
  @@ "https://example.com/mock-upload" :> <<"h", "t", "t", "p", "s", ":", "/", "/", "e", "x", "a", "m", "p", "l", "e", ".", "c", "o", "m", "/", "m", "o", "c", "k", "-", "u", "p", "l", "o", "a", "d">>
  @@ "id" :> <<"i", "d">>
  @@ "items" :> <<"i", "t", "e", "m", "s">>
  @@ "key" :> <<"k", "e", "y">>
  @@ "mainland" :> <<"m", "a", "i", "n", "l", "a", "n", "d">>
  @@ "mainland_only" :> <<"m", "a", "i", "n", "l", "a", "n", "d", "_", "o", "n", "l", "y">>
  @@ "module" :> <<"m", "o", "d", "u", "l", "e">>
  @@ "mon-sun" :> <<"m", "o", "n", "-", "s", "u", "n">>
  @@ "mon_sun" :> <<"m", "o", "n", "_", "s", "u", "n">>
  @@ "monday" :> <<"m", "o", "n", "d", "a", "y">>
  @@ "monthly" :> <<"m", "o", "n", "t", "h", "l", "y">>
  @@ "multiple" :> <<"m", "u", "l", "t", "i", "p", "l", "e">>
  @@ "multiple_choice" :> <<"m", "u", "l", "t", "i", "p", "l", "e", "_", "c", "h", "o", "i", "c", "e">>
  @@ "no" :> <<"n", "o">>
  @@ "note" :> <<"n", "o", "t", "e">>
  @@ "null" :> <<"n", "u", "l", "l">>
  @@ "payment method" :> <<"p", "a", "y", "m", "e", "n", "t", " ", "m", "e", "t", "h", "o", "d">>
  @@ "payment_method" :> <<"p", "a", "y", "m", "e", "n", "t", "_", "m", "e", "t", "h", "o", "d">>
  @@ "payroll" :> <<"p", "a", "y", "r", "o", "l", "l">>
  @@ "payroll area" :> <<"p", "a", "y", "r", "o", "l", "l", " ", "a", "r", "e", "a">>
  @@ "payroll_area" :> <<"p", "a", "y", "r", "o", "l", "l", "_", "a", "r", "e", "a">>
  @@ "puerto_rico" :> <<"p", "u", "e", "r", "t", "o", "_", "r", "i", "c", "o">>
  @@ "q1" :> <<"q", "1">>
  @@ "q1_" :> <<"q", "1", "_">>
  @@ "q1_biweekly_pattern" :> <<"q", "1", "_", "b", "i", "w", "e", "e", "k", "l", "y", "_", "p", "a", "t", "t", "e", "r", "n">>
  @@ "q1_biweekly_payday" :> <<"q", "1", "_", "b", "i", "w", "e", "e", "k", "l", "y", "_", "p", "a", "y", "d", "a", "y">>
  @@ "q1_frequencies" :> <<"q", "1", "_", "f", "r", "e", "q", "u", "e", "n", "c", "i", "e", "s">>
  @@ "q1_monthly_payday" :> <<"q", "1", "_", "m", "o", "n", "t", "h", "l", "y", "_", "p", "a", "y", "d", "a", "y">>
  @@ "q1_p_ach_spec" :> <<"q", "1", "_", "p", "_", "a", "c", "h", "_", "s", "p", "e", "c">>
  @@ "q1_p_house_banks" :> <<"q", "1", "_", "p", "_", "h", "o", "u", "s", "e", "_", "b", "a", "n", "k", "s">>
  @@ "q1_payment_method_p" :> <<"q", "1", "_", "p", "a", "y", "m", "e", "n", "t", "_", "m", "e", "t", "h", "o", "d", "_", "p">>
  @@ "q1_semimonthly_pattern" :> <<"q", "1", "_", "s", "e", "m", "i", "m", "o", "n", "t", "h", "l", "y", "_", "p", "a", "t", "t", "e", "r", "n">>
  @@ "q1_semimonthly_payday" :> <<"q", "1", "_", "s", "e", "m", "i", "m", "o", "n", "t", "h", "l", "y", "_", "p", "a", "y", "d", "a", "y">>
  @@ "q1_weekly_pattern" :> <<"q", "1", "_", "w", "e", "e", "k", "l", "y", "_", "p", "a", "t", "t", "e", "r", "n">>
  @@ "q1_weekly_payday" :> <<"q", "1", "_", "w", "e", "e", "k", "l", "y", "_", "p", "a", "y", "d", "a", "y">>
  @@ "q2" :> <<"q", "2">>
  @@ "q2_payment_method_q" :> <<"q", "2", "_", "p", "a", "y", "m", "e", "n", "t", "_", "m", "e", "t", "h", "o", "d", "_", "q">>
  @@ "q2_q_check_range" :> <<"q", "2", "_", "q", "_", "c", "h", "e", "c", "k", "_", "r", "a", "n", "g", "e">>
  @@ "q2_q_volume" :> <<"q", "2", "_", "q", "_", "v", "o", "l", "u", "m", "e">>
  @@ "q3_payment_method_k" :> <<"q", "3", "_", "p", "a", "y", "m", "e", "n", "t", "_", "m", "e", "t", "h", "o", "d", "_", "k">>
  @@ "q4_payment_method_m" :> <<"q", "4", "_", "p", "a", "y", "m", "e", "n", "t", "_", "m", "e", "t", "h", "o", "d", "_", "m">>
  @@ "q5_pre_note_confirmation" :> <<"q", "5", "_", "p", "r", "e", "_", "n", "o", "t", "e", "_", "c", "o", "n", "f", "i", "r", "m", "a", "t", "i", "o", "n">>
  @@ "quarterly" :> <<"q", "u", "a", "r", "t", "e", "r", "l", "y">>
  @@ "questions" :> <<"q", "u", "e", "s", "t", "i", "o", "n", "s">>
  @@ "regions_" :> <<"r", "e", "g", "i", "o", "n", "s", "_">>
  @@ "regions_weekly_monsun_friday" :> <<"r", "e", "g", "i", "o", "n", "s", "_", "w", "e", "e", "k", "l", "y", "_", "m", "o", "n", "s", "u", "n", "_", "f", "r", "i", "d", "a", "y">>
  @@ "saturday" :> <<"s", "a", "t", "u", "r", "d", "a", "y">>
  @@ "say " :> <<"s", "a", "y", " ">>
  @@ "second" :> <<"s", "e", "c", "o", "n", "d">>
  @@ "semimonthly" :> <<"s", "e", "m", "i", "m", "o", "n", "t", "h", "l", "y">>
  @@ "sun-sat" :> <<"s", "u", "n", "-", "s", "a", "t">>
  @@ "sunday" :> <<"s", "u", "n", "d", "a", "y">>
  @@ "tags" :> <<"t", "a", "g", "s">>
  @@ "thursday" :> <<"t", "h", "u", "r", "s", "d", "a", "y">>
  @@ "time_management" :> <<"t", "i", "m", "e", "_", "m", "a", "n", "a", "g", "e", "m", "e", "n", "t">>
  @@ "true" :> <<"t", "r", "u", "e">>
  @@ "tuesday" :> <<"t", "u", "e", "s", "d", "a", "y">>
  @@ "unknown" :> <<"u", "n", "k", "n", "o", "w", "n">>
  @@ "wednesday" :> <<"w", "e", "d", "n", "e", "s", "d", "a", "y">>
  @@ "weekly" :> <<"w", "e", "e", "k", "l", "y">>
  @@ "yes" :> <<"y", "e", "s">>
  @@ "{}" :> <<"{", "}">>

\* a Python string literal as its sequence of characters
Chars(s) == Literals[s]

\* Python None (no string is made of a several-character element)
None == <<"None">>

LowerAlphabet == Chars("abcdefghijklmnopqrstuvwxyz")
UpperAlphabet == Chars("ABCDEFGHIJKLMNOPQRSTUVWXYZ")

\* str.upper() on one character
UpperChar(c) ==
  IF \E i \in 1..26 : LowerAlphabet[i] = c
  THEN UpperAlphabet[CHOOSE i \in 1..26 : LowerAlphabet[i] = c]
  ELSE c

\* str.lower() on one character
LowerChar(c) ==
  IF \E i \in 1..26 : UpperAlphabet[i] = c
  THEN LowerAlphabet[CHOOSE i \in 1..26 : UpperAlphabet[i] = c]
  ELSE c

\* str.upper()
Upper(s) == [i \in 1..Len(s) |-> UpperChar(s[i])]

\* str.capitalize(): first character upper-cased, the rest lower-cased
Capitalize(s) == [i \in 1..Len(s) |-> IF i = 1 THEN UpperChar(s[i]) ELSE LowerChar(s[i])]

\* s[:n]
Slice(s, n) == SubSeq(s, 1, IF n < Len(s) THEN n ELSE Len(s))

\* s.replace(c, "") for a one-character c
Remove(s, c) == SelectSeq(s, LAMBDA x : x # c)

\* s.startswith(p)
StartsWith(s, p) == Len(p) <= Len(s) /\ SubSeq(s, 1, Len(p)) = p

\* s.endswith(p)
EndsWith(s, p) == Len(p) <= Len(s) /\ SubSeq(s, Len(s) - Len(p) + 1, Len(s)) = p

\* s.strip(): leading and trailing blanks removed
RECURSIVE Strip(_)
Strip(s) ==
  IF s = <<>> THEN s
  ELSE IF Head(s) = " " THEN Strip(Tail(s))
  ELSE IF s[Len(s)] = " " THEN Strip(SubSeq(s, 1, Len(s) - 1))
  ELSE s

\* s.split(","): the pieces between commas ("" splits into [""])
RECURSIVE Split(_, _)
Split(s, cur) ==
  IF s = <<>> THEN <<cur>>
  ELSE IF Head(s) = "," THEN <<cur>> \o Split(Tail(s), <<>>)
  ELSE Split(Tail(s), Append(cur, Head(s)))

\* " ".join(parts)
RECURSIVE Join(_)
Join(parts) ==
  IF parts = <<>> THEN <<>>
  ELSE IF Len(parts) = 1 THEN parts[1]
  ELSE parts[1] \o Chars(" ") \o Join(Tail(parts))

Digits == Chars("0123456789")

\* str(n) for n >= 0
RECURSIVE IntToStr(_)
IntToStr(n) ==
  IF n < 10 THEN <<Digits[n + 1]>>
  ELSE IntToStr(n \div 10) \o <<Digits[(n % 10) + 1]>>

----------------------------------------------------------------------------
(* Answer values *)

StrV(s) == [t |-> "str", v |-> s]
ListV(l) == [t |-> "list", v |-> l]
BoolV(b) == [t |-> "bool", v |-> IF b THEN <<"True">> ELSE <<"False">>]
NoneV == [t |-> "none", v |-> <<>>]

\* answers.get(key, default)
Get(a, key, default) == IF key \in DOMAIN a THEN a[key] ELSE default

\* the isinstance(x, str) coercion of a multi-select answer to a list
AsList(x) == IF x.t = "str" THEN <<x.v>> ELSE x.v

\* state["answers"][question_id] = answer
Put(a, key, value) ==
  [k \in DOMAIN a \cup {key} |-> IF k = key THEN value ELSE a[k]]

----------------------------------------------------------------------------
(* get_calendar_combos *)

\* the pattern of one frequency and its label
PatternOf(a, freq) ==
  IF freq = Chars("monthly") THEN Chars("1-end")
  ELSE IF freq = Chars("semimonthly")
  THEN Get(a, Chars("q1_") \o freq \o Chars("_pattern"), StrV(Chars("1-15_16-end"))).v
  ELSE Get(a, Chars("q1_") \o freq \o Chars("_pattern"), StrV(Chars("mon-sun"))).v

PatternLabel(freq, pattern) ==
  IF freq = Chars("monthly") THEN Chars("1st-End")
  ELSE IF freq = Chars("semimonthly")
  THEN IF pattern = Chars("1-15_16-end") THEN Chars("1st-15th & 16th-End") ELSE pattern
  ELSE IF pattern = Chars("mon-sun") THEN Chars("Mon-Sun")
  ELSE IF pattern = Chars("sun-sat") THEN Chars("Sun-Sat")
  ELSE pattern

\* answers.get(f"q1_{freq}_payday", "friday")
PaydayOf(a, freq) ==
  Get(a, Chars("q1_") \o freq \o Chars("_payday"), StrV(Chars("friday"))).v

\* key = f"{freq}_{pattern_key}_{payday}", pattern_key the pattern without "-" and "_"
ComboKey(freq, pattern, payday) ==
  freq \o Chars("_") \o Remove(Remove(pattern, "-"), "_") \o Chars("_") \o payday

FreqLabel(freq) ==
  IF freq = Chars("weekly") THEN Chars("Weekly")
  ELSE IF freq = Chars("biweekly") THEN Chars("Bi-weekly")
  ELSE IF freq = Chars("semimonthly") THEN Chars("Semi-monthly")
  ELSE IF freq = Chars("monthly") THEN Chars("Monthly")
  ELSE Capitalize(freq)

\* the combo appended for one element of the frequency list
Combo(a, freq) ==
  LET pattern == PatternOf(a, freq)
      payday == PaydayOf(a, freq)
  IN [key |-> ComboKey(freq, pattern, payday),
      label |-> FreqLabel(freq) \o Chars(" ") \o PatternLabel(freq, pattern)
                \o Chars(" (Payday: ") \o Capitalize(payday) \o Chars(")"),
      frequency |-> freq,
      pattern |-> pattern,
      payday |-> payday]

\* the frequency list: answers.get("q1_frequencies", []), a string coerced to [string]
Frequencies(a) == AsList(Get(a, Chars("q1_frequencies"), ListV(<<>>)))

get_calendar_combos(a) ==
  LET frequencies == Frequencies(a)
  IN [i \in 1..Len(frequencies) |-> Combo(a, frequencies[i])]

----------------------------------------------------------------------------
(* generate_dynamic_question *)

\* no question object (Python None where a question dict is expected)
NoShowIf == [questionId |-> None, answerId |-> None]
NoQuestion == [id |-> None, kind |-> "none", type |-> "none", label |-> None,
               showIf |-> NoShowIf]

\* the dynamic question object: its id, its type and the label its text is built from
generate_dynamic_question(calendar, question_type) ==
  IF question_type = "business"
  THEN [id |-> Chars("business_") \o calendar.key, kind |-> question_type,
        type |-> "multiple_choice", label |-> calendar.label, showIf |-> NoShowIf]
  ELSE IF question_type = "business_names"
  THEN [id |-> Chars("business_names_") \o calendar.key, kind |-> question_type,
        type |-> "text", label |-> calendar.label, showIf |-> NoShowIf]
  ELSE IF question_type = "geographic"
  THEN [id |-> Chars("geographic_") \o calendar.key, kind |-> question_type,
        type |-> "multiple_choice", label |-> calendar.label, showIf |-> NoShowIf]
  ELSE IF question_type = "regions"
  THEN [id |-> Chars("regions_") \o calendar.key, kind |-> question_type,
        type |-> "multiple_select", label |-> calendar.label, showIf |-> NoShowIf]
  ELSE NoQuestion

----------------------------------------------------------------------------
(* determine_next_question (payroll area) *)

RECURSIVE FrequencyLoop(_, _, _)
\* mutant: the payday is asked before the pattern
FrequencyLoop_PaydayFirst(a, frequencies, i) ==
  IF i > Len(frequencies) THEN None
  ELSE LET freq == frequencies[i]
           pattern_q == Chars("q1_") \o freq \o Chars("_pattern")
           payday_q == Chars("q1_") \o freq \o Chars("_payday")
       IN IF payday_q \notin DOMAIN a THEN payday_q
          ELSE IF freq # Chars("monthly") /\ pattern_q \notin DOMAIN a THEN pattern_q
          ELSE FrequencyLoop(a, frequencies, i + 1)

\* the loop over the selected frequencies: the first missing pattern or payday
\* question id from position i on, None when the loop falls through
FrequencyLoop(a, frequencies, i) ==
  IF i > Len(frequencies) THEN None
  ELSE LET freq == frequencies[i]
           pattern_q == Chars("q1_") \o freq \o Chars("_pattern")
           payday_q == Chars("q1_") \o freq \o Chars("_payday")
       IN IF freq # Chars("monthly") /\ pattern_q \notin DOMAIN a THEN pattern_q
          ELSE IF payday_q \notin DOMAIN a THEN payday_q
          ELSE FrequencyLoop(a, frequencies, i + 1)

\* mutant: the names are asked whatever the business answer is
CalendarQuestion_NamesAlways(a, calendar) ==
  LET key == calendar.key
      business_q == Chars("business_") \o key
      business_names_q == Chars("business_names_") \o key
      geographic_q == Chars("geographic_") \o key
      regions_q == Chars("regions_") \o key
  IN IF business_q \notin DOMAIN a
     THEN <<business_q, generate_dynamic_question(calendar, "business")>>
     ELSE IF business_names_q \notin DOMAIN a
     THEN <<business_names_q, generate_dynamic_question(calendar, "business_names")>>
     ELSE IF geographic_q \notin DOMAIN a
     THEN <<geographic_q, generate_dynamic_question(calendar, "geographic")>>
     ELSE IF Get(a, geographic_q, NoneV) = StrV(Chars("multiple")) /\ regions_q \notin DOMAIN a
     THEN <<regions_q, generate_dynamic_question(calendar, "regions")>>
     ELSE <<None, NoQuestion>>

\* mutant: the regions are asked whenever geographic is "multiple", answered or not
CalendarQuestion_RegionsAgain(a, calendar) ==
  LET key == calendar.key
      business_q == Chars("business_") \o key
      business_names_q == Chars("business_names_") \o key
      geographic_q == Chars("geographic_") \o key
      regions_q == Chars("regions_") \o key
  IN IF business_q \notin DOMAIN a
     THEN <<business_q, generate_dynamic_question(calendar, "business")>>
     ELSE IF Get(a, business_q, NoneV) = StrV(Chars("yes")) /\ business_names_q \notin DOMAIN a
     THEN <<business_names_q, generate_dynamic_question(calendar, "business_names")>>
     ELSE IF geographic_q \notin DOMAIN a
     THEN <<geographic_q, generate_dynamic_question(calendar, "geographic")>>
     ELSE IF Get(a, geographic_q, NoneV) = StrV(Chars("multiple"))
     THEN <<regions_q, generate_dynamic_question(calendar, "regions")>>
     ELSE <<None, NoQuestion>>

\* the questions of one calendar, in the order the loop body tests them
CalendarQuestion(a, calendar) ==
  LET key == calendar.key
      business_q == Chars("business_") \o key
      business_names_q == Chars("business_names_") \o key
      geographic_q == Chars("geographic_") \o key
      regions_q == Chars("regions_") \o key
  IN IF business_q \notin DOMAIN a
     THEN <<business_q, generate_dynamic_question(calendar, "business")>>
     ELSE IF Get(a, business_q, NoneV) = StrV(Chars("yes")) /\ business_names_q \notin DOMAIN a
     THEN <<business_names_q, generate_dynamic_question(calendar, "business_names")>>
     ELSE IF geographic_q \notin DOMAIN a
     THEN <<geographic_q, generate_dynamic_question(calendar, "geographic")>>
     ELSE IF Get(a, geographic_q, NoneV) = StrV(Chars("multiple")) /\ regions_q \notin DOMAIN a
     THEN <<regions_q, generate_dynamic_question(calendar, "regions")>>
     ELSE <<None, NoQuestion>>

RECURSIVE CalendarLoop(_, _, _)
\* mutant: only the first calendar is looked at
CalendarLoop_FirstOnly(a, calendars, i) ==
  IF i > Len(calendars) THEN <<None, NoQuestion>>
  ELSE CalendarQuestion(a, calendars[i])

\* the loop over the calendars: the first calendar question from position i on
CalendarLoop(a, calendars, i) ==
  IF i > Len(calendars) THEN <<None, NoQuestion>>
  ELSE LET q == CalendarQuestion(a, calendars[i])
       IN IF q[1] # None THEN q ELSE CalendarLoop(a, calendars, i + 1)

\* (question_id, question_object); (None, None) when all questions are answered
determine_next_question(a) ==
  IF Chars("q1_frequencies") \notin DOMAIN a THEN <<Chars("q1_frequencies"), NoQuestion>>
  ELSE LET static_q == FrequencyLoop(a, Frequencies(a), 1)
       IN IF static_q # None THEN <<static_q, NoQuestion>>
          ELSE CalendarLoop(a, get_calendar_combos(a), 1)

----------------------------------------------------------------------------
(* generate_payroll_areas *)

\* calendar_codes.get(freq, 90)
calendar_codes(freq) ==
  IF freq = Chars("weekly") THEN 80
  ELSE IF freq = Chars("biweekly") THEN 20
  ELSE IF freq = Chars("semimonthly") THEN 30
  ELSE IF freq = Chars("monthly") THEN 40
  ELSE 90

\* mutant: the names are not trimmed
BusinessNames_NoStrip(bu_text) ==
  SelectSeq(Split(bu_text, <<>>), LAMBDA b : Strip(b) # <<>>)

\* [b.strip() for b in bu_text.split(",") if b.strip()]
BusinessNames(bu_text) ==
  LET pieces == Split(bu_text, <<>>)
      stripped == [i \in 1..Len(pieces) |-> Strip(pieces[i])]
  IN SelectSeq(stripped, LAMBDA b : b # <<>>)

\* the business units of one calendar
BusinessUnits(a, key) ==
  IF Get(a, Chars("business_") \o key, NoneV) = StrV(Chars("yes"))
  THEN LET business_units ==
             BusinessNames(Get(a, Chars("business_names_") \o key, StrV(<<>>)).v)
       IN IF business_units = <<>> THEN <<None>> ELSE business_units
  ELSE <<None>>

\* the regions of one calendar
Regions(a, key) ==
  IF Get(a, Chars("geographic_") \o key, NoneV) = StrV(Chars("multiple"))
  THEN AsList(Get(a, Chars("regions_") \o key, ListV(<<Chars("mainland")>>)))
  ELSE <<None>>

freq_abbrev(freq) ==
  IF freq = Chars("weekly") THEN Chars("Wkly")
  ELSE IF freq = Chars("biweekly") THEN Chars("BiWk")
  ELSE IF freq = Chars("semimonthly") THEN Chars("SemiMo")
  ELSE IF freq = Chars("monthly") THEN Chars("Mo")
  ELSE Slice(freq, 4)

payday_abbrev(payday) ==
  IF payday # <<>> THEN Capitalize(Slice(payday, 3)) ELSE Chars("Fri")

region_abbrev(region) ==
  IF region = Chars("hawaii") THEN Chars("HI")
  ELSE IF region = Chars("puerto_rico") THEN Chars("PR")
  ELSE IF region = Chars("alaska") THEN Chars("AK")
  ELSE Upper(Slice(region, 2))

\* `if bu:` and `if region and region != "mainland":`
Truthy(s) == s # None /\ s # <<>>
RegionShown(region) == Truthy(region) /\ region # Chars("mainland")

\* the parts of the description before joining
desc_parts(freq, payday, bu, region) ==
  <<freq_abbrev(freq), Chars("PDAY ") \o payday_abbrev(payday)>>
  \o (IF Truthy(bu) THEN <<Slice(bu, 6)>> ELSE <<>>)
  \o (IF RegionShown(region) THEN <<region_abbrev(region)>> ELSE <<>>)

\* mutant: the joined parts are not truncated
Description_Untruncated(freq, payday, bu, region) ==
  Join(desc_parts(freq, payday, bu, region))

\* description = " ".join(desc_parts)[:20]
Description(freq, payday, bu, region) ==
  Slice(Join(desc_parts(freq, payday, bu, region)), 20)

Reasoning(freq, pattern, payday, bu, region) ==
  <<Chars("Pay frequency: ") \o freq,
    Chars("Period pattern: ") \o pattern,
    Chars("Pay day: ") \o payday>>
  \o (IF Truthy(bu) THEN <<Chars("Business unit: ") \o bu>> ELSE <<>>)
  \o (IF RegionShown(region) THEN <<Chars("Region: ") \o region>> ELSE <<>>)

\* mutant: the raw region is stored, the mainland included
Area_KeepMainland(calendar, calendar_code, area_num, bu, region) ==
  [code |-> Chars("Z") \o IntToStr(area_num),
   description |-> Description(calendar.frequency, calendar.payday, bu, region),
   frequency |-> calendar.frequency,
   periodPattern |-> calendar.pattern,
   payDay |-> calendar.payday,
   calendarId |-> calendar_code,
   employeeCount |-> 0,
   businessUnit |-> bu,
   region |-> region,
   reasoning |-> Reasoning(calendar.frequency, calendar.pattern, calendar.payday, bu, region)]

\* the dict appended for one (business unit, region) pair
Area(calendar, calendar_code, area_num, bu, region) ==
  [code |-> Chars("Z") \o IntToStr(area_num),
   description |-> Description(calendar.frequency, calendar.payday, bu, region),
   frequency |-> calendar.frequency,
   periodPattern |-> calendar.pattern,
   payDay |-> calendar.payday,
   calendarId |-> calendar_code,
   employeeCount |-> 0,
   businessUnit |-> bu,
   region |-> IF region # Chars("mainland") THEN region ELSE None,
   reasoning |-> Reasoning(calendar.frequency, calendar.pattern, calendar.payday, bu, region)]

RECURSIVE RegionLoop(_, _, _, _, _, _)
\* mutant: area_num is not incremented
RegionLoop_NoIncrement(calendar, calendar_code, bu, regions, k, st) ==
  IF k > Len(regions) THEN st
  ELSE RegionLoop(calendar, calendar_code, bu, regions, k + 1,
         [areas |-> Append(st.areas,
                           Area(calendar, calendar_code, st.area_num, bu, regions[k])),
          area_num |-> st.area_num])

\* `for region in regions:` from position k on; st = [areas, area_num]
RegionLoop(calendar, calendar_code, bu, regions, k, st) ==
  IF k > Len(regions) THEN st
  ELSE RegionLoop(calendar, calendar_code, bu, regions, k + 1,
         [areas |-> Append(st.areas,
                           Area(calendar, calendar_code, st.area_num, bu, regions[k])),
          area_num |-> st.area_num + 1])

\* `for bu in business_units:` from position j on
RECURSIVE BusinessUnitLoop(_, _, _, _, _, _)
BusinessUnitLoop(calendar, calendar_code, business_units, regions, j, st) ==
  IF j > Len(business_units) THEN st
  ELSE BusinessUnitLoop(calendar, calendar_code, business_units, regions, j + 1,
         RegionLoop(calendar, calendar_code, business_units[j], regions, 1, st))

\* mutant: the running area count is left out of the calendar code
CalendarCode_NoCount(freq, areas) == IntToStr(calendar_codes(freq))

\* calendar_code = str(calendar_codes.get(freq, 90) + len(areas))
CalendarCode(freq, areas) == IntToStr(calendar_codes(freq) + Len(areas))

\* `for calendar in calendars:` from position i on
RECURSIVE AreaLoop(_, _, _, _)
AreaLoop(a, calendars, i, st) ==
  IF i > Len(calendars) THEN st
  ELSE LET calendar == calendars[i]
       IN AreaLoop(a, calendars, i + 1,
            BusinessUnitLoop(calendar, CalendarCode(calendar.frequency, st.areas),
                             BusinessUnits(a, calendar.key), Regions(a, calendar.key),
                             1, st))

generate_payroll_areas(a) ==
  AreaLoop(a, get_calendar_combos(a), 1, [areas |-> <<>>, area_num |-> 1]).areas

----------------------------------------------------------------------------
(* Payment methods: the question catalog, the router and the generator *)

\* a catalog question; showIf = [questionId, answerId], questionId None when absent
Question(id, type, parent, answer) ==
  [id |-> id, kind |-> "static", type |-> type, label |-> None,
   showIf |-> [questionId |-> parent, answerId |-> answer]]

\* payment_method_questions.json in catalog order: the detail questions of P and
\* of Q are shown only when their governing question is answered "yes"
QUESTIONS ==
  <<Question(Chars("q1_payment_method_p"), "multiple_choice", None, None),
    Question(Chars("q1_p_house_banks"), "text", Chars("q1_payment_method_p"), Chars("yes")),
    Question(Chars("q1_p_ach_spec"), "text", Chars("q1_payment_method_p"), Chars("yes")),
    Question(Chars("q2_payment_method_q"), "multiple_choice", None, None),
    Question(Chars("q2_q_volume"), "text", Chars("q2_payment_method_q"), Chars("yes")),
    Question(Chars("q2_q_check_range"), "text", Chars("q2_payment_method_q"), Chars("yes")),
    Question(Chars("q3_payment_method_k"), "multiple_choice", None, None),
    Question(Chars("q4_payment_method_m"), "multiple_choice", None, None),
    Question(Chars("q5_pre_note_confirmation"), "multiple_choice", None, None)>>

\* a condition that any answer to the parent question satisfies
condition_satisfied_AnyAnswer(show_if, a) ==
  IF show_if.questionId = None THEN TRUE
  ELSE show_if.questionId \in DOMAIN a

\* _condition_satisfied(show_if, answers)
condition_satisfied(show_if, a) ==
  IF show_if.questionId = None THEN TRUE
  ELSE Get(a, show_if.questionId, NoneV) = StrV(show_if.answerId)

RECURSIVE QuestionLoop(_, _)
\* mutant: an answered question is not skipped
QuestionLoop_NoSkip(a, i) ==
  IF i > Len(QUESTIONS) THEN <<None, NoQuestion>>
  ELSE LET q == QUESTIONS[i]
       IN IF q.showIf.questionId # None /\ ~condition_satisfied(q.showIf, a)
          THEN QuestionLoop(a, i + 1)
          ELSE <<q.id, q>>

\* `for q in QUESTIONS:` from position i on
QuestionLoop(a, i) ==
  IF i > Len(QUESTIONS) THEN <<None, NoQuestion>>
  ELSE LET q == QUESTIONS[i]
       IN IF q.id \in DOMAIN a THEN QuestionLoop(a, i + 1)
          ELSE IF q.showIf.questionId # None /\ ~condition_satisfied(q.showIf, a)
          THEN QuestionLoop(a, i + 1)
          ELSE <<q.id, q>>

\* determine_next_question of the payment-method module
payment_determine_next_question(a) == QuestionLoop(a, 1)

\* `answer in {"yes", True}`
IsYes(x) == x = StrV(Chars("yes")) \/ x = BoolV(TRUE)

\* mutant: an unanswered governing question yields a used = FALSE record
MethodRecord_UnansweredUnused(a, code, governing, detail1, detail2) ==
  LET x == Get(a, governing, NoneV)
  IN IF IsYes(x)
     THEN <<[code |-> code, used |-> TRUE,
             detail1 |-> IF detail1 = None THEN NoneV ELSE Get(a, detail1, NoneV),
             detail2 |-> IF detail2 = None THEN NoneV ELSE Get(a, detail2, NoneV)]>>
     ELSE <<[code |-> code, used |-> FALSE, detail1 |-> NoneV, detail2 |-> NoneV]>>

\* the record of one yes/no method: none when the governing answer is neither
MethodRecord(a, code, governing, detail1, detail2) ==
  LET x == Get(a, governing, NoneV)
  IN IF IsYes(x)
     THEN <<[code |-> code, used |-> TRUE,
             detail1 |-> IF detail1 = None THEN NoneV ELSE Get(a, detail1, NoneV),
             detail2 |-> IF detail2 = None THEN NoneV ELSE Get(a, detail2, NoneV)]>>
     ELSE IF x = StrV(Chars("no"))
     THEN <<[code |-> code, used |-> FALSE, detail1 |-> NoneV, detail2 |-> NoneV]>>
     ELSE <<>>

\* the PRE_NOTE record: agree_no_pre_note in `used`, raw_answer in detail1
PreNoteRecord(a) ==
  LET pre_note == Get(a, Chars("q5_pre_note_confirmation"), NoneV)
  IN IF pre_note # NoneV
     THEN <<[code |-> "PRE_NOTE", used |-> (pre_note = StrV(Chars("agree"))),
             detail1 |-> pre_note, detail2 |-> NoneV]>>
     ELSE <<>>

generate_payment_methods(a) ==
  MethodRecord(a, "P", Chars("q1_payment_method_p"),
               Chars("q1_p_house_banks"), Chars("q1_p_ach_spec"))
  \o MethodRecord(a, "Q", Chars("q2_payment_method_q"),
                  Chars("q2_q_volume"), Chars("q2_q_check_range"))
  \o MethodRecord(a, "K", Chars("q3_payment_method_k"), None, None)
  \o MethodRecord(a, "M", Chars("q4_payment_method_m"), None, None)
  \o PreNoteRecord(a)

----------------------------------------------------------------------------
(* export_api.py: calendar dates.  A datetime.date is a record
   [year, month, day]; date arithmetic goes through the proleptic Gregorian
   ordinal, as datetime does *)

IsLeap(y) == (y % 4 = 0 /\ y % 100 # 0) \/ y % 400 = 0

DaysInMonth(y, m) ==
  IF m = 2 THEN (IF IsLeap(y) THEN 29 ELSE 28)
  ELSE IF m \in {4, 6, 9, 11} THEN 30
  ELSE 31

\* the days before January 1st of year y
DaysBeforeYear(y) ==
  LET p == y - 1 IN p * 365 + (p \div 4) - (p \div 100) + (p \div 400)

\* the days of year y before the first day of month m
RECURSIVE DaysBeforeMonth(_, _)
DaysBeforeMonth(y, m) ==
  IF m = 1 THEN 0 ELSE DaysBeforeMonth(y, m - 1) + DaysInMonth(y, m - 1)

Date(y, m, d) == [year |-> y, month |-> m, day |-> d]

\* date.toordinal(): 0001-01-01 is day 1
toordinal(d) == DaysBeforeYear(d.year) + DaysBeforeMonth(d.year, d.month) + d.day

\* date.fromordinal(n)
fromordinal(n) ==
  LET y == CHOOSE yy \in (n \div 366)..((n \div 365) + 1) :
             DaysBeforeYear(yy) < n /\ n <= DaysBeforeYear(yy + 1)
      r == n - DaysBeforeYear(y)
      m == CHOOSE mm \in 1..12 :
             DaysBeforeMonth(y, mm) < r /\ r <= DaysBeforeMonth(y, mm) + DaysInMonth(y, mm)
  IN Date(y, m, r - DaysBeforeMonth(y, m))

\* d + timedelta(days=k)
AddDays(d, k) == fromordinal(toordinal(d) + k)

\* date.weekday(): Monday = 0 .. Sunday = 6
weekday(d) == (toordinal(d) + 6) % 7

\* s.zfill(w)
RECURSIVE Zfill(_, _)
Zfill(s, w) == IF Len(s) >= w THEN s ELSE Zfill(<<"0">> \o s, w)

\* d.strftime("%Y%m%d")
format_date_padded(d) ==
  Zfill(IntToStr(d.year), 4) \o Zfill(IntToStr(d.month), 2) \o Zfill(IntToStr(d.day), 2)

\* s.split("-")
RECURSIVE SplitDash(_, _)
SplitDash(s, cur) ==
  IF s = <<>> THEN <<cur>>
  ELSE IF Head(s) = "-" THEN <<cur>> \o SplitDash(Tail(s), <<>>)
  ELSE SplitDash(Tail(s), Append(cur, Head(s)))

\* int(s) for a string of decimal digits
RECURSIVE StrToInt(_)
StrToInt(s) ==
  IF s = <<>> THEN 0
  ELSE StrToInt(SubSeq(s, 1, Len(s) - 1)) * 10
       + ((CHOOSE k \in 1..10 : Digits[k] = s[Len(s)]) - 1)

\* _parse_anchor("YYYY-MM-DD")
parse_anchor(s) ==
  LET parts == SplitDash(s, <<>>)
  IN Date(StrToInt(parts[1]), StrToInt(parts[2]), StrToInt(parts[3]))

\* SAP_DEFAULTS["PERIOD_ANCHOR"] and SAP_DEFAULTS["PAY_DATE_ANCHOR"]
PERIOD_ANCHOR == Chars("2024-01-01")
PAY_DATE_ANCHOR == Chars("2024-01-01")

\* s.lower()
Lower(s) == [i \in 1..Len(s) |-> LowerChar(s[i])]

----------------------------------------------------------------------------
(* export_api.py: generate_pay_period_csv.  The loop state st is
   [rows, payroll_period, current_year, prior_counter]; current_year is <<>>
   for None and <<y>> for the year y *)

\* push_row(begin, end)
push_row(st, cal_id, begin, end) ==
  LET payroll_year == end.year
      prior_year == end.year
      prior_counter == IF st.current_year = <<>> \/ st.current_year # <<prior_year>>
                       THEN 1 ELSE st.prior_counter + 1
  IN [st EXCEPT
        !.rows = Append(st.rows,
                   [period_parameters |-> cal_id,
                    payroll_year |-> IntToStr(payroll_year),
                    payroll_period |-> Zfill(IntToStr(st.payroll_period), 2),
                    period_begin_date |-> format_date_padded(begin),
                    period_end_date |-> format_date_padded(end),
                    prior_period_year |-> IntToStr(prior_year),
                    prior_period_period |-> Zfill(IntToStr(prior_counter), 2)]),
        !.payroll_period = st.payroll_period + 1,
        !.current_year = <<prior_year>>,
        !.prior_counter = prior_counter]

\* A `for` loop is run as its first half followed by its second half, down to
\* single iterations; the test on the first half's result (always true: one
\* row, at least, per iteration) has it computed before the second half starts.

RECURSIVE WindowLoop(_, _, _, _, _, _, _)
\* mutant: a window ends on the day the next one begins
WindowLoop_EndsOnNextBegin(st, cal_id, anchor, step, span, i, total) ==
  IF i >= total THEN st
  ELSE IF total = i + 1
  THEN LET begin == AddDays(anchor, i * step)
           end == AddDays(begin, span + 1)
       IN push_row(st, cal_id, begin, end)
  ELSE LET mid == i + ((total - i) \div 2)
           half == WindowLoop(st, cal_id, anchor, step, span, i, mid)
       IN IF half.payroll_period > mid
          THEN WindowLoop(half, cal_id, anchor, step, span, mid, total)
          ELSE half

\* `for i in range(total):`, the iterations i .. total - 1: windows of
\* span + 1 days, one every step days
WindowLoop(st, cal_id, anchor, step, span, i, total) ==
  IF i >= total THEN st
  ELSE IF total = i + 1
  THEN LET begin == AddDays(anchor, i * step)
           end == AddDays(begin, span)
       IN push_row(st, cal_id, begin, end)
  ELSE LET mid == i + ((total - i) \div 2)
           half == WindowLoop(st, cal_id, anchor, step, span, i, mid)
       IN IF half.payroll_period > mid
          THEN WindowLoop(half, cal_id, anchor, step, span, mid, total)
          ELSE half

\* a last day taken as the 28th plus two days
last_day_ThirtyDays(y, m) == AddDays(Date(y, m, 28), 2).day

\* (date(y, m, 28) + 4 days).replace(day=1) - 1 day, its day
last_day(y, m) ==
  LET next_month == AddDays(Date(y, m, 28), 4)
  IN AddDays(Date(next_month.year, next_month.month, 1), -1).day

\* the first day of the month after (y, m)
NextCursor(y, m) == IF m = 12 THEN Date(y + 1, 1, 1) ELSE Date(y, m + 1, 1)

\* the semimonthly `for _ in range(12 * num_years):`, the iterations
\* k .. total - 1; the cursor is in st
RECURSIVE SemimonthlyLoop(_, _, _, _)
SemimonthlyLoop(st, cal_id, k, total) ==
  IF k >= total THEN st
  ELSE IF total = k + 1
  THEN LET y == st.cursor.year
           m == st.cursor.month
           first == push_row(st, cal_id, Date(y, m, 1), Date(y, m, 15))
           second == push_row(first, cal_id, Date(y, m, 16), Date(y, m, last_day(y, m)))
       IN [second EXCEPT !.cursor = NextCursor(y, m)]
  ELSE LET mid == k + ((total - k) \div 2)
           half == SemimonthlyLoop(st, cal_id, k, mid)
       IN IF half.payroll_period > mid
          THEN SemimonthlyLoop(half, cal_id, mid, total)
          ELSE half

\* the monthly `for _ in range(12 * num_years):`, the iterations k .. total - 1
RECURSIVE MonthlyLoop(_, _, _, _)
MonthlyLoop(st, cal_id, k, total) ==
  IF k >= total THEN st
  ELSE IF total = k + 1
  THEN LET y == st.cursor.year
           m == st.cursor.month
       IN [push_row(st, cal_id, Date(y, m, 1), Date(y, m, last_day(y, m)))
             EXCEPT !.cursor = NextCursor(y, m)]
  ELSE LET mid == k + ((total - k) \div 2)
           half == MonthlyLoop(st, cal_id, k, mid)
       IN IF half.payroll_period > mid
          THEN MonthlyLoop(half, cal_id, mid, total)
          ELSE half

\* str(area.get("frequency") or "weekly")
AreaFrequency(area) == IF area.frequency = None THEN Chars("weekly") ELSE area.frequency

\* str(area.get("calendarId") or "80")
AreaCalendarId(area) == IF area.calendarId = None THEN Chars("80") ELSE area.calendarId

\* the rows for a frequency, before they are written as CSV
PayPeriodRows(frequency, cal_id, num_years) ==
  LET anchor == parse_anchor(PERIOD_ANCHOR)
      st == [rows |-> <<>>, payroll_period |-> 1, current_year |-> <<>>,
             prior_counter |-> 0, cursor |-> anchor]
  IN IF frequency = Chars("weekly")
     THEN WindowLoop(st, cal_id, anchor, 7, 6, 0, 52 * num_years).rows
     ELSE IF frequency = Chars("biweekly")
     THEN WindowLoop(st, cal_id, anchor, 14, 13, 0, 26 * num_years).rows
     ELSE IF frequency = Chars("semimonthly")
     THEN SemimonthlyLoop(st, cal_id, 0, 12 * num_years).rows
     ELSE IF frequency = Chars("monthly")
     THEN MonthlyLoop(st, cal_id, 0, 12 * num_years).rows
     ELSE WindowLoop(st, cal_id, anchor, 7, 6, 0, 52 * num_years).rows

\* mutant: a frequency that is none of the four yields no rows
generate_pay_period_csv_NoFallback(area, num_years) ==
  IF AreaFrequency(area) \in {Chars("weekly"), Chars("biweekly"), Chars("semimonthly"),
                              Chars("monthly")}
  THEN PayPeriodRows(AreaFrequency(area), AreaCalendarId(area), num_years)
  ELSE <<>>

generate_pay_period_csv(area, num_years) ==
  PayPeriodRows(AreaFrequency(area), AreaCalendarId(area), num_years)

----------------------------------------------------------------------------
(* export_api.py: generate_pay_date_csv *)

\* PAYDAY_TO_WEEKDAY.get(weekday_name): <<>> for None
PAYDAY_TO_WEEKDAY(weekday_name) ==
  IF weekday_name = Chars("sunday") THEN <<0>>
  ELSE IF weekday_name = Chars("monday") THEN <<1>>
  ELSE IF weekday_name = Chars("tuesday") THEN <<2>>
  ELSE IF weekday_name = Chars("wednesday") THEN <<3>>
  ELSE IF weekday_name = Chars("thursday") THEN <<4>>
  ELSE IF weekday_name = Chars("friday") THEN <<5>>
  ELSE IF weekday_name = Chars("saturday") THEN <<6>>
  ELSE <<>>

find_closest_weekday(base, weekday_name) ==
  LET target == PAYDAY_TO_WEEKDAY(weekday_name)
  IN IF target = <<>> THEN base
     ELSE LET base_dow == weekday(base)
              base_dow_sun0 == (base_dow + 1) % 7
              forward == (target[1] - base_dow_sun0 + 7) % 7
              backward == (base_dow_sun0 - target[1] + 7) % 7
              offset == IF forward <= backward THEN forward ELSE 0 - backward
          IN AddDays(base, offset)

\* a pay-date loop whose period counter runs on over the turn of the year
RECURSIVE PayDateLoop_NoRestart(_, _, _, _, _)
PayDateLoop_NoRestart(st, cal_id, step, k, total) ==
  IF k >= total THEN st
  ELSE IF total = k + 1
  THEN [rows |-> Append(st.rows,
                   [molga |-> Chars("10"),
                    date_modifier |-> Chars("01"),
                    period_parameters |-> cal_id,
                    payroll_year |-> IntToStr(st.current.year),
                    payroll_period |-> Zfill(IntToStr(st.period_counter + 1), 2),
                    date_type |-> Chars("01"),
                    date |-> format_date_padded(st.current)]),
        current |-> AddDays(st.current, step),
        current_year |-> <<st.current.year>>,
        period_counter |-> st.period_counter + 1]
  ELSE LET mid == k + ((total - k) \div 2)
           half == PayDateLoop_NoRestart(st, cal_id, step, k, mid)
       IN IF Len(half.rows) >= mid
          THEN PayDateLoop_NoRestart(half, cal_id, step, mid, total)
          ELSE half

\* the pay-date `for _ in range(total):`, the iterations k .. total - 1;
\* st = [rows, current, current_year, period_counter]
RECURSIVE PayDateLoop(_, _, _, _, _)
PayDateLoop(st, cal_id, step, k, total) ==
  IF k >= total THEN st
  ELSE IF total = k + 1
  THEN LET y == st.current.year
           period_counter == IF st.current_year = <<>> \/ st.current_year # <<y>>
                             THEN 1 ELSE st.period_counter + 1
       IN [rows |-> Append(st.rows,
                      [molga |-> Chars("10"),
                       date_modifier |-> Chars("01"),
                       period_parameters |-> cal_id,
                       payroll_year |-> IntToStr(y),
                       payroll_period |-> Zfill(IntToStr(period_counter), 2),
                       date_type |-> Chars("01"),
                       date |-> format_date_padded(st.current)]),
           current |-> AddDays(st.current, step),
           current_year |-> <<y>>,
           period_counter |-> period_counter]
  ELSE LET mid == k + ((total - k) \div 2)
           half == PayDateLoop(st, cal_id, step, k, mid)
       IN IF Len(half.rows) >= mid
          THEN PayDateLoop(half, cal_id, step, mid, total)
          ELSE half

\* str(area.get("payDay") or "friday").lower()
AreaPayDay(area) == Lower(IF area.payDay = None THEN Chars("friday") ELSE area.payDay)

\* the rows of the weekly (step 7) or biweekly (step 14) schedule
PayDateRows(area, step, num_years) ==
  LET anchor == parse_anchor(PAY_DATE_ANCHOR)
      total == (IF step = 7 THEN 52 ELSE 26) * num_years
      first == find_closest_weekday(anchor, AreaPayDay(area))
  IN PayDateLoop([rows |-> <<>>, current |-> first, current_year |-> <<>>,
                  period_counter |-> 0],
                 AreaCalendarId(area), step, 0, total).rows

\* mutant: the other frequencies get the weekly schedule
generate_pay_date_csv_WeeklyFallback(area, num_years) ==
  IF AreaFrequency(area) = Chars("biweekly")
  THEN [status |-> "ok", rows |-> PayDateRows(area, 14, num_years)]
  ELSE [status |-> "ok", rows |-> PayDateRows(area, 7, num_years)]

\* the rows, or the HTTPException(status_code=400) raised
generate_pay_date_csv(area, num_years) ==
  IF AreaFrequency(area) \in {Chars("weekly"), Chars("biweekly")}
  THEN [status |-> "ok",
        rows |-> PayDateRows(area, IF AreaFrequency(area) = Chars("weekly") THEN 7 ELSE 14,
                             num_years)]
  ELSE [status |-> "HTTP 400", rows |-> <<>>]

\* no session has been started and no request is in flight: the MemorySaver
\* checkpoint, the sessions row and the legacy dict entry of the session id
\* are each <<>> when absent and <<state>> when present
NoStore ==
  [memory |-> <<>>, db |-> <<>>, sessions |-> <<>>, authed |-> FALSE,
   requests |-> [r \in 1..MaxRequests |->
                   [pc |-> "idle", question_id |-> None, answer |-> NoneV,
                    pending |-> <<>>]],
   status |-> "none", overlapped |-> FALSE]

----------------------------------------------------------------------------
(* ReachNettDataManager: module data on disk, with a copy uploaded *)

IntV(n) == [t |-> "int", v |-> n]
\* a dict, as its (key, value) pairs in insertion order
DictV(pairs) == [t |-> "dict", v |-> pairs]

NewLine == <<"\n">>
Quote == <<"\"">>
Indent(level) == [i \in 1..(2 * level) |-> " "]

\* the escapes of a JSON string: the quote and the backslash
RECURSIVE EscapeString(_)
EscapeString(s) ==
  IF s = <<>> THEN <<>>
  ELSE (IF Head(s) \in {"\"", "\\"} THEN <<"\\", Head(s)>> ELSE <<Head(s)>>)
       \o EscapeString(Tail(s))

\* json.dumps(o, indent=2) of the value o nested level deep
RECURSIVE DumpValue(_, _)
RECURSIVE DumpItems(_, _, _)
RECURSIVE DumpMembers(_, _, _)
DumpValue(o, level) ==
  CASE o.t = "str" -> Quote \o EscapeString(o.v) \o Quote
    [] o.t = "int" -> IF o.v < 0 THEN <<"-">> \o IntToStr(0 - o.v) ELSE IntToStr(o.v)
    [] o.t = "bool" -> IF o = BoolV(TRUE) THEN Chars("true") ELSE Chars("false")
    [] o.t = "none" -> Chars("null")
    [] o.t = "list" ->
         IF o.v = <<>> THEN Chars("[]")
         ELSE <<"[">> \o NewLine \o DumpItems(o.v, 1, level + 1)
              \o NewLine \o Indent(level) \o <<"]">>
    [] o.t = "dict" ->
         IF o.v = <<>> THEN Chars("{}")
         ELSE <<"{">> \o NewLine \o DumpMembers(o.v, 1, level + 1)
              \o NewLine \o Indent(level) \o <<"}">>

DumpItems(items, k, level) ==
  Indent(level) \o DumpValue(items[k], level)
  \o (IF k = Len(items) THEN <<>>
      ELSE <<",">> \o NewLine \o DumpItems(items, k + 1, level))

DumpMembers(pairs, k, level) ==
  Indent(level) \o Quote \o EscapeString(pairs[k][1]) \o Quote \o Chars(": ")
  \o DumpValue(pairs[k][2], level)
  \o (IF k = Len(pairs) THEN <<>>
      ELSE <<",">> \o NewLine \o DumpMembers(pairs, k + 1, level))

json_dumps(data) == DumpValue(data, 0)

\* the index of the first character of s at or after i that is not whitespace
RECURSIVE SkipWhitespace(_, _)
SkipWhitespace(s, i) ==
  IF i <= Len(s) /\ s[i] \in {" ", "\n", "\t", "\r"} THEN SkipWhitespace(s, i + 1) ELSE i

\* the string whose opening quote precedes i, and the index after its closing quote
RECURSIVE ScanString(_, _, _)
ScanString(s, i, acc) ==
  IF s[i] = "\"" THEN [v |-> acc, i |-> i + 1]
  ELSE IF s[i] = "\\" THEN ScanString(s, i + 2, Append(acc, s[i + 1]))
  ELSE ScanString(s, i + 1, Append(acc, s[i]))

\* the digits from i on, read as a number
RECURSIVE ScanDigits(_, _, _)
ScanDigits(s, i, n) ==
  IF i <= Len(s) /\ \E k \in 1..10 : Digits[k] = s[i]
  THEN ScanDigits(s, i + 1, n * 10 + ((CHOOSE k \in 1..10 : Digits[k] = s[i]) - 1))
  ELSE [v |-> n, i |-> i]

\* d[key] = value on the pairs of a dict
DictSet(pairs, key, value) ==
  IF \E k \in 1..Len(pairs) : pairs[k][1] = key
  THEN [k \in 1..Len(pairs) |-> IF pairs[k][1] = key THEN <<key, value>> ELSE pairs[k]]
  ELSE Append(pairs, <<key, value>>)

StringScanned(r) == [v |-> StrV(r.v), i |-> r.i]
NumberScanned(r, sign) == [v |-> IntV(sign * r.v), i |-> r.i]

\* the JSON decoder: the value that starts at i and the index after it
RECURSIVE ParseValue(_, _)
RECURSIVE ParseValueAt(_, _)
RECURSIVE ParseItems(_, _, _)
RECURSIVE ItemParsed(_, _, _)
RECURSIVE ItemEnd(_, _, _)
RECURSIVE ParseMembers(_, _, _)
RECURSIVE KeyParsed(_, _, _)
RECURSIVE MemberParsed(_, _, _, _)
RECURSIVE MemberEnd(_, _, _)
RECURSIVE OpenList(_, _)
RECURSIVE OpenDict(_, _)
ParseValue(s, i) == ParseValueAt(s, SkipWhitespace(s, i))

ParseValueAt(s, i) ==
  CASE s[i] = "\"" -> StringScanned(ScanString(s, i + 1, <<>>))
    [] s[i] = "{" -> OpenDict(s, SkipWhitespace(s, i + 1))
    [] s[i] = "[" -> OpenList(s, SkipWhitespace(s, i + 1))
    [] s[i] = "t" -> [v |-> BoolV(TRUE), i |-> i + 4]
    [] s[i] = "f" -> [v |-> BoolV(FALSE), i |-> i + 5]
    [] s[i] = "n" -> [v |-> NoneV, i |-> i + 4]
    [] s[i] = "-" -> NumberScanned(ScanDigits(s, i + 1, 0), 0 - 1)
    [] OTHER -> NumberScanned(ScanDigits(s, i, 0), 1)

OpenList(s, j) ==
  IF s[j] = "]" THEN [v |-> ListV(<<>>), i |-> j + 1] ELSE ParseItems(s, j, <<>>)

ParseItems(s, i, acc) == ItemParsed(s, ParseValue(s, i), acc)
ItemParsed(s, item, acc) == ItemEnd(s, SkipWhitespace(s, item.i), Append(acc, item.v))
ItemEnd(s, j, items) ==
  IF s[j] = "," THEN ParseItems(s, j + 1, items) ELSE [v |-> ListV(items), i |-> j + 1]

OpenDict(s, j) ==
  IF s[j] = "}" THEN [v |-> DictV(<<>>), i |-> j + 1] ELSE ParseMembers(s, j, <<>>)

ParseMembers(s, i, acc) == KeyParsed(s, ScanString(s, i + 1, <<>>), acc)
KeyParsed(s, key, acc) ==
  MemberParsed(s, key.v, ParseValue(s, SkipWhitespace(s, key.i) + 1), acc)
MemberParsed(s, key, member, acc) ==
  MemberEnd(s, SkipWhitespace(s, member.i), DictSet(acc, key, member.v))
MemberEnd(s, j, pairs) ==
  IF s[j] = ","
  THEN ParseMembers(s, SkipWhitespace(s, j + 1), pairs)
  ELSE [v |-> DictV(pairs), i |-> j + 1]

json_loads(text) == ParseValue(text, 1).v

\* base_dir / customer / company_code / f"{module}.json", relative to base_dir
module_file(customer, company_code, module_name) ==
  customer \o <<"/">> \o company_code \o <<"/">> \o module_name \o Chars(".json")

\* the URL the upload service answers with
UPLOAD_URL == Chars("https://example.com/mock-upload")

\* upload_document(**kwargs): the document is put to the storage and the URL
\* returned, or the request fails and KnowledgebaseUploadError is raised
upload_document(st, kwargs, reachable) ==
  IF reachable
  THEN [st EXCEPT !.uploads = Append(@, kwargs), !.url = UPLOAD_URL, !.status = "ok"]
  ELSE [st EXCEPT !.url = None, !.status = "KnowledgebaseUploadError"]

\* a save_module that uploads the payload and leaves the file as it was
save_module_UploadOnly(st, customer, company_code, module_name, data, reachable) ==
  upload_document(
    [st EXCEPT !.op = "save", !.saves = @ + 1,
               !.triple = <<customer, company_code, module_name>>,
               !.saved = Put(@, <<customer, company_code, module_name>>, data)],
    [company_code |-> company_code, company_name |-> customer,
     content_type |-> module_name,
     document_bytes |-> json_dumps(data),
     mime_type |-> Chars("application/json")],
    reachable)

\* ReachNettDataManager.save_module; saves counts the calls and saved keeps the
\* data of the last call for each (customer, company code, module)
save_module(st, customer, company_code, module_name, data, reachable) ==
  upload_document(
    [st EXCEPT !.op = "save", !.saves = @ + 1,
               !.triple = <<customer, company_code, module_name>>,
               !.saved = Put(@, <<customer, company_code, module_name>>, data),
               !.files = Put(@, module_file(customer, company_code, module_name),
                             json_dumps(data))],
    [company_code |-> company_code, company_name |-> customer,
     content_type |-> module_name,
     document_bytes |-> json_dumps(data),
     mime_type |-> Chars("application/json")],
    reachable)

\* ReachNettDataManager.load_module
load_module(st, customer, company_code, module_name) ==
  [st EXCEPT !.op = "load", !.status = "ok",
             !.triple = <<customer, company_code, module_name>>,
             !.loaded =
               IF module_file(customer, company_code, module_name) \in DOMAIN st.files
               THEN json_loads(st.files[module_file(customer, company_code, module_name)])
               ELSE DictV(<<>>)]

\* an empty base directory, nothing uploaded, no call made
NoStorage ==
  [files |-> <<>>, uploads |-> <<>>, saved |-> <<>>, saves |-> 0, op |-> "none",
   triple |-> <<None, None, None>>, loaded |-> NoneV, url |-> None, status |-> "none"]

\* generate_file_content(sess, file_id) for the two schedule files: the
\* areas are extract_payroll_areas(sess.config_state)
generate_file_content(ex, areas, file_id) ==
  IF areas = <<>>
  THEN [ex EXCEPT !.file = file_id, !.status = "ok", !.rows = <<>>]
  ELSE IF file_id = "download pay-period"
  THEN [ex EXCEPT !.file = file_id, !.status = "ok",
                  !.rows = generate_pay_period_csv(areas[1], 1)]
  ELSE LET result == generate_pay_date_csv(areas[1], 1)
       IN [ex EXCEPT !.file = file_id, !.status = result.status,
                     !.rows = result.rows]

\* no export has been requested
NoExport ==
  [area |-> [frequency |-> None, payDay |-> None, calendarId |-> None],
   num_years |-> 0, file |-> "none", status |-> "none", rows |-> <<>>]

----------------------------------------------------------------------------
(* app/config/configuration.py, backend/questions.py: the question catalog
   files.  A catalog document is [has_list, questions]: whether the root has
   a list under "questions", and that list; a question is [id, text, type,
   choices], a key the object does not have being None (what q.get gives),
   NoneV for choices *)

\* the `for q in data["questions"]:` of _validate_questions_schema, from the
\* k-th question on: FALSE when an iteration raises ConfigValidationError
RECURSIVE ValidateLoop(_, _, _)
ValidateLoop(questions, k, seen_ids) ==
  IF k > Len(questions) THEN TRUE
  ELSE LET q == questions[k]
           qid == q.id
           text == q.text
           qtype == q.type
       IN IF qid = None \/ qid = <<>> THEN FALSE
          ELSE IF text = None \/ text = <<>> THEN FALSE
          ELSE IF qid \in seen_ids THEN FALSE
          ELSE IF qtype = Chars("multiple_choice")
                  /\ q.choices.t # "none" /\ q.choices.t # "list"
          THEN FALSE
          ELSE ValidateLoop(questions, k + 1, seen_ids \cup {qid})

\* _validate_questions_schema(data): TRUE when it returns, FALSE when it raises
validate_questions_schema(data) ==
  IF ~data.has_list THEN FALSE
  ELSE ValidateLoop(data.questions, 1, {})

\* save_current_questions(data): the files afterwards and the outcome
save_current_questions(files, data) ==
  IF validate_questions_schema(data)
  THEN [files EXCEPT !.current = data, !.result = "ok"]
  ELSE [files EXCEPT !.result = "ConfigValidationError"]

\* init_from_upload(uploaded)
init_from_upload(files, uploaded) ==
  IF validate_questions_schema(uploaded)
  THEN [files EXCEPT !.original = uploaded, !.current = uploaded, !.result = "ok"]
  ELSE [files EXCEPT !.result = "ConfigValidationError"]

\* load_current_questions(): the document returned, files initialised
load_current_questions(files) ==
  IF validate_questions_schema(files.current)
  THEN [files EXCEPT !.loaded = files.current.questions, !.result = "ok"]
  ELSE [files EXCEPT !.result = "ConfigValidationError"]

\* restore_original()
restore_original(files) ==
  IF validate_questions_schema(files.original)
  THEN [files EXCEPT !.current = files.original, !.result = "ok"]
  ELSE [files EXCEPT !.result = "ConfigValidationError"]

\* questions.load_questions(module_name), and QUESTIONS_BY_ID of the payment
\* graph: `{q["id"]: q for q in data["questions"]}` on the module's catalog file.
\* q["id"] of an object without the key raises KeyError; of two questions with
\* one id the later one stays in the index.  The result lists the questions
\* of the index in the order of their ids' first occurrence.
load_questions(files, data) ==
  IF ~data.has_list
  THEN [files EXCEPT !.result = "KeyError"]
  ELSE LET qs == data.questions
           HasId(k) == qs[k].id # None
           Last(k) == \A j \in (k + 1)..Len(qs) : qs[j].id # qs[k].id
           First(k) == \A j \in 1..(k - 1) : qs[j].id # qs[k].id
           LastOf(k) == CHOOSE j \in k..Len(qs) : qs[j].id = qs[k].id /\ Last(j)
           firsts == SelectSeq([k \in 1..Len(qs) |-> k], First)
       IN IF \E k \in 1..Len(qs) : ~HasId(k)
          THEN [files EXCEPT !.result = "KeyError"]
          ELSE [files EXCEPT !.result = "ok",
                             !.loaded = [i \in 1..Len(firsts) |-> qs[LastOf(firsts[i])]]]

\* no catalog operation has run
NoConfig ==
  [original |-> [has_list |-> TRUE, questions |-> <<>>], current |-> [has_list |-> TRUE, questions |-> <<>>],
   op |-> "none", given |-> [has_list |-> TRUE, questions |-> <<>>], result |-> "none",
   loaded |-> <<>>]

----------------------------------------------------------------------------
(* backend/payment_method_graph.py: the payment-method graph beside the
   application package, the one tests/test_payment_method_graph.py imports *)

\* determine_next_question: `return (None, None)`
backend_determine_next_question(a) == <<None, NoQuestion>>

\* generate_payment_methods: `return []`
backend_generate_payment_methods(a) == <<>>

----------------------------------------------------------------------------
(* Answer values a caller submits *)

FREQUENCY_IDS ==
  {Chars("weekly"), Chars("biweekly"), Chars("semimonthly"), Chars("monthly"),
   Chars("quarterly")}

\* sequences over S of length at most n
RECURSIVE SeqsUpTo(_, _)
SeqsUpTo(S, n) ==
  IF n = 0 THEN {<<>>}
  ELSE LET shorter == SeqsUpTo(S, n - 1)
       IN shorter \cup {Append(s, x) : s \in {r \in shorter : Len(r) = n - 1}, x \in S}

\* q1_frequencies is a multi-select: a list, or one frequency as a string
FrequencyAnswers ==
  {ListV(l) : l \in SeqsUpTo(FREQUENCY_IDS, MaxFreqs)} \cup {StrV(f) : f \in FREQUENCY_IDS}

PatternAnswers(qid) ==
  IF qid = Chars("q1_semimonthly_pattern") THEN {StrV(Chars("1-15_16-end"))}
  ELSE IF qid = Chars("q1_weekly_pattern")
  THEN {StrV(Chars("mon-sun")), StrV(Chars("sun-sat"))}
  ELSE {StrV(Chars("mon-sun"))}

PaydayAnswers(qid) ==
  IF qid \in {Chars("q1_weekly_payday"), Chars("q1_monthly_payday")}
  THEN {StrV(Chars("friday")), StrV(Chars("wednesday"))}
  ELSE {StrV(Chars("friday"))}

YesNo == {StrV(Chars("yes")), StrV(Chars("no"))}

BusinessNamesAnswers == {StrV(Chars("IT, Finance")), StrV(Chars(" , "))}

GeographicAnswers == {StrV(Chars("mainland_only")), StrV(Chars("multiple"))}

RegionsAnswers ==
  {ListV(<<Chars("hawaii"), Chars("mainland")>>), ListV(<<>>), StrV(Chars("alaska"))}

TextAnswers == {StrV(Chars("Bank A, Bank B"))}

PreNoteAnswers == {StrV(Chars("agree")), StrV(Chars("disagree"))}

\* the values offered for the question the router returned
AnswerOptions(qid, question) ==
  IF question.kind = "business" THEN YesNo
  ELSE IF question.kind = "business_names" THEN BusinessNamesAnswers
  ELSE IF question.kind = "geographic" THEN GeographicAnswers
  ELSE IF question.kind = "regions" THEN RegionsAnswers
  ELSE IF question.kind = "static"
  THEN IF question.type = "text" THEN TextAnswers
       ELSE IF qid = Chars("q5_pre_note_confirmation") THEN PreNoteAnswers
       ELSE YesNo
  ELSE IF qid = Chars("q1_frequencies") THEN FrequencyAnswers
  ELSE IF EndsWith(qid, Chars("_pattern")) THEN PatternAnswers(qid)
  ELSE PaydayAnswers(qid)

----------------------------------------------------------------------------
(* The graphs: START -> router -> END *)

\* a router that generates the areas once and keeps them while the session stays done
payroll_router_KeepsAreas(a) ==
  LET q == determine_next_question(a)
  IN IF q[1] = None
     THEN /\ current_question_id' = None
          /\ current_question' = NoQuestion
          /\ payroll_areas' = IF done THEN payroll_areas ELSE generate_payroll_areas(a)
          /\ done' = TRUE
          /\ UNCHANGED payment_methods
     ELSE /\ current_question_id' = q[1]
          /\ current_question' = q[2]
          /\ done' = FALSE
          /\ UNCHANGED <<payroll_areas, payment_methods>>

\* router_node of the payroll-area graph on a state whose answers are a
payroll_router(a) ==
  LET q == determine_next_question(a)
  IN IF q[1] = None
     THEN /\ current_question_id' = None
          /\ current_question' = NoQuestion
          /\ payroll_areas' = generate_payroll_areas(a)
          /\ done' = TRUE
          /\ UNCHANGED payment_methods
     ELSE /\ current_question_id' = q[1]
          /\ current_question' = q[2]
          /\ done' = FALSE
          /\ UNCHANGED <<payroll_areas, payment_methods>>

\* payment_method_router on a state whose answers are a
payment_router(a) ==
  LET q == payment_determine_next_question(a)
  IN IF q[1] = None
     THEN /\ current_question_id' = None
          /\ current_question' = NoQuestion
          /\ payment_methods' = generate_payment_methods(a)
          /\ done' = TRUE
          /\ UNCHANGED payroll_areas
     ELSE /\ current_question_id' = q[1]
          /\ current_question' = q[2]
          /\ done' = FALSE
          /\ UNCHANGED <<payroll_areas, payment_methods>>

\* graph.invoke(state) of the session's module
Invoke(a) ==
  IF module = "payroll_area" THEN payroll_router(a) ELSE payment_router(a)

\* the state a session starts from: no answers, no question yet
Init ==
  /\ module \in {"payroll_area", "payment_method"}
  /\ current_module = None
  /\ completed_modules = <<>>
  /\ export = NoExport
  /\ config = NoConfig
  /\ store = NoStore
  /\ storage = NoStorage
  /\ answers = <<>>
  /\ current_question_id = None
  /\ current_question = NoQuestion
  /\ payroll_areas = <<>>
  /\ payment_methods = <<>>
  /\ done = FALSE

\* the first invocation, on the empty answer set
Start ==
  /\ current_question_id = None
  /\ ~done
  /\ Invoke(answers)
  /\ UNCHANGED <<answers, module, current_module, completed_modules, export, config, store, storage>>

\* the caller answers the question the router returned and invokes the graph
AnswerCurrent ==
  /\ current_question_id # None
  /\ \E v \in AnswerOptions(current_question_id, current_question) :
       /\ answers' = Put(answers, current_question_id, v)
       /\ Invoke(answers')
  /\ UNCHANGED <<module, current_module, completed_modules, export, config, store, storage>>

Next == Start \/ AnswerCurrent

Spec == Init /\ [][Next]_vars

----------------------------------------------------------------------------
(* Direct use: a driver prepares a state with answers already in it and
   invokes a payment-method graph once, or calls the generator on the answers *)

\* payment_method_router of backend/payment_method_graph.py
backend_payment_method_router(a) ==
  LET q == backend_determine_next_question(a)
  IN IF q[1] = None
     THEN /\ current_question_id' = None
          /\ current_question' = NoQuestion
          /\ payment_methods' = backend_generate_payment_methods(a)
          /\ done' = TRUE
          /\ UNCHANGED payroll_areas
     ELSE /\ current_question_id' = q[1]
          /\ current_question' = q[2]
          /\ done' = FALSE
          /\ UNCHANGED <<payroll_areas, payment_methods>>

\* the values a prepared state holds for a payment question
PreparedOptions(q) ==
  IF q.id = Chars("q1_payment_method_p") THEN YesNo \cup {BoolV(TRUE)}
  ELSE AnswerOptions(q.id, q)

\* the answer sets over the first i catalog questions, each answered or not
RECURSIVE PreparedAnswers(_)
PreparedAnswers(i) ==
  IF i = 0 THEN {<<>>}
  ELSE LET shorter == PreparedAnswers(i - 1)
       IN shorter \cup {Put(a, QUESTIONS[i].id, v) :
                          a \in shorter, v \in PreparedOptions(QUESTIONS[i])}

\* the prepared state: which graph the driver imports, and the answers
InitDirect ==
  /\ module \in {"payment_method", "backend.payment_method_graph"}
  /\ current_module = None
  /\ completed_modules = <<>>
  /\ export = NoExport
  /\ config = NoConfig
  /\ store = NoStore
  /\ storage = NoStorage
  /\ answers \in PreparedAnswers(Len(QUESTIONS))
  /\ current_question_id = None
  /\ current_question = NoQuestion
  /\ payroll_areas = <<>>
  /\ payment_methods = <<>>
  /\ done = FALSE

\* payment_method_graph.invoke(state), the graph of app/agents/payments
InvokePaymentGraph ==
  /\ module = "payment_method"
  /\ current_question_id = None
  /\ ~done
  /\ payment_router(answers)
  /\ UNCHANGED <<answers, module, current_module, completed_modules, export, config, store, storage>>

\* payment_method_graph.invoke(state), the graph of backend/payment_method_graph.py
InvokeBackendPaymentGraph ==
  /\ module = "backend.payment_method_graph"
  /\ current_question_id = None
  /\ ~done
  /\ backend_payment_method_router(answers)
  /\ UNCHANGED <<answers, module, current_module, completed_modules, export, config, store, storage>>

\* generate_payment_methods(answers), called on the answers as they are
GeneratePaymentMethods ==
  /\ module = "payment_method"
  /\ current_question_id = None
  /\ ~done
  /\ payment_methods = <<>>
  /\ payment_methods' = generate_payment_methods(answers)
  /\ UNCHANGED <<answers, current_question_id, current_question, payroll_areas, done,
                 module, current_module, completed_modules, export, config, store, storage>>

NextDirect == InvokePaymentGraph \/ InvokeBackendPaymentGraph \/ GeneratePaymentMethods

SpecDirect == InitDirect /\ [][NextDirect]_vars

----------------------------------------------------------------------------
(* Submissions in any order: submit_answer stores the answer under whatever
   question id the request names, answered before or not, and invokes the graph *)

WeeklyKey == ComboKey(Chars("weekly"), Chars("mon-sun"), Chars("friday"))
MonthlyKey == ComboKey(Chars("monthly"), Chars("1-end"), Chars("friday"))

\* the (question id, answer) pairs a payroll-area session is sent
PayrollSubmissions ==
  ({Chars("q1_frequencies")} \X
     {ListV(<<Chars("weekly"), Chars("monthly")>>),
      ListV(<<Chars("monthly"), Chars("weekly")>>), StrV(Chars("weekly"))})
  \cup ({Chars("q1_weekly_pattern")} \X PatternAnswers(Chars("q1_weekly_pattern")))
  \cup ({Chars("q1_weekly_payday"), Chars("q1_monthly_payday")} \X {StrV(Chars("friday"))})
  \cup ({Chars("business_") \o WeeklyKey} \X YesNo)
  \cup ({Chars("business_names_") \o WeeklyKey} \X {StrV(Chars("IT, Finance"))})
  \cup ({Chars("geographic_") \o WeeklyKey} \X GeographicAnswers)
  \cup ({Chars("regions_") \o WeeklyKey} \X {ListV(<<Chars("hawaii"), Chars("mainland")>>)})
  \cup ({Chars("business_") \o MonthlyKey} \X {StrV(Chars("no"))})
  \cup ({Chars("geographic_") \o MonthlyKey} \X {StrV(Chars("mainland_only"))})

\* the (question id, answer) pairs a payment-method session is sent
PaymentSubmissions ==
  UNION {{QUESTIONS[i].id} \X AnswerOptions(QUESTIONS[i].id, QUESTIONS[i]) :
           i \in 1..Len(QUESTIONS)}

\* submit_answer: state["answers"][question_id] = answer, then graph.invoke(state)
SubmitAnswer ==
  /\ current_question_id # None \/ done
  /\ \E s \in (IF module = "payroll_area" THEN PayrollSubmissions ELSE PaymentSubmissions) :
       /\ answers' = Put(answers, s[1], s[2])
       /\ Invoke(answers')
  /\ UNCHANGED <<module, current_module, completed_modules, export, config, store, storage>>

NextAny == Start \/ SubmitAnswer

SpecAny == Init /\ [][NextAny]_vars

----------------------------------------------------------------------------
(* The master graph of agents/graph.py: START -> master_router -> END *)

MODULE_SEQUENCE == <<Chars("payroll_area"), Chars("payment_method")>>

PAYMENT_METHOD_QUESTION_PREFIXES ==
  <<Chars("q1_payment_method_p"), Chars("q1_p_house_banks"), Chars("q1_p_ach_spec"),
    Chars("q2_payment_method_q"), Chars("q2_q_volume"), Chars("q2_q_check_range"),
    Chars("q3_payment_method_k"), Chars("q4_payment_method_m"),
    Chars("q5_pre_note_confirmation")>>

PAYROLL_AREA_QUESTION_PREFIXES ==
  <<Chars("q1_frequencies"), Chars("q1_weekly_pattern"), Chars("q1_biweekly_pattern"),
    Chars("q1_semimonthly_pattern"), Chars("q1_monthly_payday"), Chars("business_"),
    Chars("geographic_"), Chars("regions_")>>

\* some key of a equals or starts with some prefix of the list
AnyKeyMatches(a, prefixes) ==
  \E key \in DOMAIN a : \E i \in 1..Len(prefixes) :
    key = prefixes[i] \/ StartsWith(key, prefixes[i])

\* the payment prefixes are looked for first, over all keys, then the payroll ones
infer_module_from_answers(a) ==
  IF DOMAIN a = {} THEN None
  ELSE IF AnyKeyMatches(a, PAYMENT_METHOD_QUESTION_PREFIXES) THEN Chars("payment_method")
  ELSE IF AnyKeyMatches(a, PAYROLL_AREA_QUESTION_PREFIXES) THEN Chars("payroll_area")
  ELSE None

\* the first module of the sequence from position i on that is not completed
RECURSIVE NextModuleFrom(_, _)
NextModuleFrom(completed, i) ==
  IF i > Len(MODULE_SEQUENCE) THEN None
  ELSE IF \A k \in 1..Len(completed) : completed[k] # MODULE_SEQUENCE[i]
  THEN MODULE_SEQUENCE[i]
  ELSE NextModuleFrom(completed, i + 1)

get_next_module(completed) == NextModuleFrom(completed, 1)

\* the state dict the master graph is invoked on
MasterState ==
  [answers |-> answers,
   current_question_id |-> current_question_id,
   current_question |-> current_question,
   payroll_areas |-> payroll_areas,
   payment_methods |-> payment_methods,
   done |-> done,
   current_module |-> current_module,
   completed_modules |-> completed_modules]

\* the state router_node returns when determine_next_question returned q
PayrollRouterReturn(s, q) ==
  IF q[1] = None
  THEN [s EXCEPT !.current_question_id = None, !.current_question = NoQuestion,
                 !.payroll_areas = generate_payroll_areas(s.answers), !.done = TRUE]
  ELSE [s EXCEPT !.current_question_id = q[1], !.current_question = q[2],
                 !.done = FALSE]

\* the state payment_method_router returns when determine_next_question returned q
PaymentRouterReturn(s, q) ==
  IF q[1] = None
  THEN [s EXCEPT !.current_question_id = None, !.current_question = NoQuestion,
                 !.payment_methods = generate_payment_methods(s.answers), !.done = TRUE]
  ELSE [s EXCEPT !.current_question_id = q[1], !.current_question = q[2],
                 !.done = FALSE]

\* result = payroll_router(state)
PayrollRouterResult(s) == PayrollRouterReturn(s, determine_next_question(s.answers))

\* result = payment_router(state)
PaymentRouterResult(s) ==
  PaymentRouterReturn(s, payment_determine_next_question(s.answers))

\* mutant: the module is inferred from the answer keys whenever there are answers
EffectiveModule_InferenceFirst(s) ==
  IF DOMAIN s.answers # {} /\ infer_module_from_answers(s.answers) # None
  THEN infer_module_from_answers(s.answers)
  ELSE s.current_module

\* mutant: without a module tag and without a matching key no module is chosen
EffectiveModule_NoDefault(s) ==
  IF s.current_module = None /\ infer_module_from_answers(s.answers) = None
  THEN Chars("unknown")
  ELSE IF s.current_module = None /\ DOMAIN s.answers # {}
  THEN infer_module_from_answers(s.answers)
  ELSE s.current_module

\* current_module after the defensive fallback
EffectiveModule(s) ==
  IF s.current_module = None /\ DOMAIN s.answers # {}
  THEN LET inferred_module == infer_module_from_answers(s.answers)
       IN IF inferred_module # None THEN inferred_module ELSE s.current_module
  ELSE s.current_module

\* the module run has set result.done: it is marked complete
ModuleCompleted(result, completed, name) ==
  LET new_completed == Append(completed, name)
      next_after == get_next_module(new_completed)
  IN IF next_after = None
     THEN [result EXCEPT !.completed_modules = new_completed,
                         !.current_module = None, !.done = TRUE]
     ELSE [result EXCEPT !.completed_modules = new_completed,
                         !.current_module = next_after, !.done = FALSE]

\* next_module: the current module unless it is completed, else the first
\* module of the sequence that is not
ChooseModule(cm, completed) ==
  IF cm # None /\ (\A k \in 1..Len(completed) : completed[k] # cm)
  THEN cm
  ELSE get_next_module(completed)

\* the module's result with the bookkeeping of the master router
ModuleReturned(result, completed, name) ==
  IF result.done
  THEN ModuleCompleted(result, completed, name)
  ELSE [result EXCEPT !.completed_modules = completed, !.current_module = name]

\* the routing of master_router once next_module is known
RunModule(s, completed, next_module) ==
  IF next_module = None
  THEN [s EXCEPT !.done = TRUE, !.current_module = None]
  ELSE IF next_module = Chars("payroll_area")
  THEN ModuleReturned(PayrollRouterResult(s), completed, Chars("payroll_area"))
  ELSE IF next_module = Chars("payment_method")
  THEN ModuleReturned(PaymentRouterResult(s), completed, Chars("payment_method"))
  ELSE [s EXCEPT !.done = TRUE]

\* master_router of app/agents/graph.py
master_router(s) ==
  RunModule(s, s.completed_modules,
            ChooseModule(EffectiveModule(s), s.completed_modules))

\* the answers of tests/test_payment_method_graph.py
TestAnswers ==
  (Chars("q1_payment_method_p") :> StrV(Chars("yes")))
  @@ (Chars("q1_p_house_banks") :> StrV(Chars("Bank A, Bank B")))
  @@ (Chars("q1_p_ach_spec") :> StrV(Chars("Bank A, Bank B")))
  @@ (Chars("q2_payment_method_q") :> StrV(Chars("yes")))
  @@ (Chars("q2_q_volume") :> StrV(Chars("Bank A, Bank B")))
  @@ (Chars("q2_q_check_range") :> StrV(Chars("Bank A, Bank B")))
  @@ (Chars("q3_payment_method_k") :> StrV(Chars("no")))
  @@ (Chars("q4_payment_method_m") :> StrV(Chars("yes")))
  @@ (Chars("q5_pre_note_confirmation") :> StrV(Chars("agree")))

\* a finished payroll questionnaire
PayrollAnswers ==
  (Chars("q1_frequencies") :> ListV(<<Chars("weekly")>>))
  @@ (Chars("q1_weekly_pattern") :> StrV(Chars("mon-sun")))
  @@ (Chars("q1_weekly_payday") :> StrV(Chars("friday")))
  @@ (Chars("business_weekly_monsun_friday") :> StrV(Chars("no")))
  @@ (Chars("geographic_weekly_monsun_friday") :> StrV(Chars("mainland_only")))

\* the answer sets of the states the master graph is invoked on: none, keys of
\* neither prefix family, keys of one family, keys of both
IncomingAnswers ==
  {<<>>,
   Chars("companyName") :> StrV(Chars("IT")),
   Chars("q1_weekly_payday") :> StrV(Chars("friday")),
   Chars("q1_frequencies") :> ListV(<<Chars("weekly")>>),
   PayrollAnswers,
   Chars("q1_payment_method_p") :> StrV(Chars("yes")),
   TestAnswers,
   (Chars("q1_frequencies") :> ListV(<<Chars("weekly")>>))
     @@ (Chars("q1_payment_method_p") :> StrV(Chars("yes"))),
   PayrollAnswers @@ (Chars("q1_payment_method_p") :> StrV(Chars("yes"))),
   (Chars("q1_frequencies") :> ListV(<<Chars("weekly")>>)) @@ TestAnswers,
   PayrollAnswers @@ TestAnswers}

\* the module tags of those states: missing, a module of the sequence, another
IncomingModules ==
  {None, Chars("payroll_area"), Chars("payment_method"), Chars("time_management")}

IncomingCompleted ==
  {<<>>, <<Chars("payroll_area")>>, <<Chars("payment_method")>>,
   <<Chars("payroll_area"), Chars("payment_method")>>}

\* a state dict handed to master_graph.invoke
InitMaster ==
  /\ module = "master"
  /\ answers \in IncomingAnswers
  /\ current_module \in IncomingModules
  /\ completed_modules \in IncomingCompleted
  /\ export = NoExport
  /\ config = NoConfig
  /\ store = NoStore
  /\ storage = NoStorage
  /\ current_question_id = None
  /\ current_question = NoQuestion
  /\ payroll_areas = <<>>
  /\ payment_methods = <<>>
  /\ done = FALSE

\* the state dict the graph returns: every key of MasterState is taken from
\* the router's result
ReturnState(result) ==
  /\ answers' = result.answers
  /\ current_question_id' = result.current_question_id
  /\ current_question' = result.current_question
  /\ payroll_areas' = result.payroll_areas
  /\ payment_methods' = result.payment_methods
  /\ done' = result.done
  /\ current_module' = result.current_module
  /\ completed_modules' = result.completed_modules

\* master_graph.invoke(state): the state becomes master_router's result
InvokeMaster ==
  /\ module = "master"
  /\ ReturnState(master_router(MasterState))
  /\ UNCHANGED <<module, export, config, store, storage>>

NextMaster == InvokeMaster

SpecMaster == InitMaster /\ [][NextMaster]_vars

----------------------------------------------------------------------------
(* Schedule export: a payroll area is handed to generate_pay_period_csv or to
   generate_pay_date_csv, with the number of years *)

ExportFrequencies ==
  {Chars("weekly"), Chars("biweekly"), Chars("semimonthly"), Chars("monthly"),
   Chars("quarterly"), None}

ExportPayDays ==
  {Chars("sunday"), Chars("monday"), Chars("tuesday"), Chars("wednesday"),
   Chars("thursday"), Chars("friday"), Chars("saturday"), None}

\* a finished questionnaire with a weekly and a monthly calendar
TwoCalendarAnswers ==
  (Chars("q1_frequencies") :> ListV(<<Chars("weekly"), Chars("monthly")>>))
  @@ (Chars("q1_weekly_pattern") :> StrV(Chars("mon-sun")))
  @@ (Chars("q1_weekly_payday") :> StrV(Chars("friday")))
  @@ (Chars("q1_monthly_payday") :> StrV(Chars("friday")))
  @@ ((Chars("business_") \o WeeklyKey) :> StrV(Chars("no")))
  @@ ((Chars("geographic_") \o WeeklyKey) :> StrV(Chars("mainland_only")))
  @@ ((Chars("business_") \o MonthlyKey) :> StrV(Chars("no")))
  @@ ((Chars("geographic_") \o MonthlyKey) :> StrV(Chars("mainland_only")))

SemimonthlyKey == ComboKey(Chars("semimonthly"), Chars("1-15_16-end"), Chars("friday"))
BiweeklyKey == ComboKey(Chars("biweekly"), Chars("mon-sun"), Chars("friday"))

\* a finished questionnaire with a semimonthly calendar of five business units
\* in two regions, and a biweekly calendar
TenAreaAnswers ==
  (Chars("q1_frequencies") :> ListV(<<Chars("semimonthly"), Chars("biweekly")>>))
  @@ (Chars("q1_semimonthly_pattern") :> StrV(Chars("1-15_16-end")))
  @@ (Chars("q1_semimonthly_payday") :> StrV(Chars("friday")))
  @@ (Chars("q1_biweekly_pattern") :> StrV(Chars("mon-sun")))
  @@ (Chars("q1_biweekly_payday") :> StrV(Chars("friday")))
  @@ ((Chars("business_") \o SemimonthlyKey) :> StrV(Chars("yes")))
  @@ ((Chars("business_names_") \o SemimonthlyKey) :> StrV(Chars("A, B, C, D, E")))
  @@ ((Chars("geographic_") \o SemimonthlyKey) :> StrV(Chars("multiple")))
  @@ ((Chars("regions_") \o SemimonthlyKey) :> ListV(<<Chars("hawaii"), Chars("mainland")>>))
  @@ ((Chars("business_") \o BiweeklyKey) :> StrV(Chars("no")))
  @@ ((Chars("geographic_") \o BiweeklyKey) :> StrV(Chars("mainland_only")))

\* the payroll areas of the session exported: none, those of one calendar,
\* those of two calendars, those of a calendar with ten areas and a second one
ExportedAreas ==
  {<<>>, generate_payroll_areas(PayrollAnswers), generate_payroll_areas(TwoCalendarAnswers),
   generate_payroll_areas(TenAreaAnswers)}

\* the area and the years of the request, nothing generated yet
InitExport ==
  /\ module = "export"
  /\ answers = <<>>
  /\ current_question_id = None
  /\ current_question = NoQuestion
  /\ payroll_areas \in ExportedAreas
  /\ payment_methods = <<>>
  /\ done = FALSE
  /\ current_module = None
  /\ completed_modules = <<>>
  /\ config = NoConfig
  /\ store = NoStore
  /\ storage = NoStorage
  /\ \E f \in ExportFrequencies, p \in ExportPayDays, n \in 1..MaxYears :
       export = [area |-> [frequency |-> f, payDay |-> p, calendarId |-> Chars("80")],
                 num_years |-> n, file |-> "none", status |-> "none", rows |-> <<>>]

\* generate_pay_period_csv(area, num_years)
GeneratePayPeriod ==
  /\ module = "export"
  /\ export.file = "none"
  /\ export' = [export EXCEPT !.file = "pay-period", !.status = "ok",
                              !.rows = generate_pay_period_csv(export.area, export.num_years)]
  /\ UNCHANGED <<answers, current_question_id, current_question, payroll_areas,
                 payment_methods, done, module, current_module, completed_modules,
                 config, store, storage>>

\* generate_pay_date_csv(area, num_years)
GeneratePayDate ==
  /\ module = "export"
  /\ export.file = "none"
  /\ LET result == generate_pay_date_csv(export.area, export.num_years)
     IN export' = [export EXCEPT !.file = "pay-date", !.status = result.status,
                                 !.rows = result.rows]
  /\ UNCHANGED <<answers, current_question_id, current_question, payroll_areas,
                 payment_methods, done, module, current_module, completed_modules,
                 config, store, storage>>

\* the download of a schedule file of the session
GenerateFileContent ==
  /\ module = "export"
  /\ export.file = "none"
  /\ \E file_id \in {"download pay-period", "download pay-date"} :
       export' = generate_file_content(export, payroll_areas, file_id)
  /\ UNCHANGED <<answers, current_question_id, current_question, payroll_areas,
                 payment_methods, done, module, current_module, completed_modules,
                 config, store, storage>>

NextExport == GeneratePayPeriod \/ GeneratePayDate \/ GenerateFileContent

SpecExport == InitExport /\ [][NextExport]_vars

----------------------------------------------------------------------------
(* app/main.py: the session layer around the master graph, for one session
   id.  A request of submit_answer is "idle", then "awaiting" (suspended in
   `await get_optional_user(authorization)`, the handler's only await), and
   runs from the load of the state to the response without suspension *)

\* the result of the graph kept in the MemorySaver checkpoint and persisted:
\* to the database for an authenticated user, else to the legacy dict
PersistState(st, result) ==
  IF st.authed
  THEN [st EXCEPT !.memory = <<result>>, !.db = <<result>>, !.status = "ok"]
  ELSE [st EXCEPT !.memory = <<result>>, !.sessions = <<result>>, !.status = "ok"]

\* start_session: the master graph on the initial state, the result stored
start_session(st, requested_module, current_user) ==
  LET initial_state ==
        [answers |-> <<>>, current_question_id |-> None,
         current_question |-> NoQuestion, payroll_areas |-> <<>>,
         payment_methods |-> <<>>, done |-> FALSE,
         current_module |-> requested_module, completed_modules |-> <<>>]
  IN PersistState([st EXCEPT !.authed = current_user], master_router(initial_state))

\* 1) Load state: MemorySaver -> DB -> legacy dict; <<>> when none has it
LoadState(st) ==
  IF st.memory # <<>> THEN st.memory
  ELSE IF st.authed /\ st.db # <<>> THEN st.db
  ELSE st.sessions

\* 2) .. 4) of submit_answer: the answer stored into the state, the master
\* graph run, the result persisted
AdvanceState(st, state, question_id, answer) ==
  PersistState(st, master_router([state EXCEPT
                                    !.answers = Put(state.answers, question_id, answer)]))

\* mutant: the handler is suspended once more between the graph run and the
\* persisting of its result
submit_answer_AwaitBeforePersist(st, r) ==
  LET req == st.requests[r]
      found == LoadState(st)
      idle == [pc |-> "idle", question_id |-> None, answer |-> NoneV, pending |-> <<>>]
  IN IF req.pending # <<>>
     THEN [AdvanceState(st, req.pending[1], req.question_id, req.answer)
             EXCEPT !.requests[r] = idle]
     ELSE IF found = <<>>
     THEN [st EXCEPT !.requests[r] = idle, !.status = "HTTP 404"]
     ELSE [st EXCEPT !.requests[r].pending = found]

\* mutant: the graph is run on a state holding the submitted answer alone
submit_answer_FreshAnswers(st, r) ==
  LET req == st.requests[r]
      found == LoadState(st)
      idle == [pc |-> "idle", question_id |-> None, answer |-> NoneV, pending |-> <<>>]
  IN IF found = <<>>
     THEN [st EXCEPT !.requests[r] = idle, !.status = "HTTP 404"]
     ELSE [AdvanceState(st, [found[1] EXCEPT !.answers = <<>>],
                        req.question_id, req.answer)
             EXCEPT !.requests[r] = idle]

\* submit_answer after its await, to the response
submit_answer(st, r) ==
  LET req == st.requests[r]
      found == LoadState(st)
      idle == [pc |-> "idle", question_id |-> None, answer |-> NoneV, pending |-> <<>>]
  IN IF found = <<>>
     THEN [st EXCEPT !.requests[r] = idle, !.status = "HTTP 404"]
     ELSE [AdvanceState(st, found[1], req.question_id, req.answer)
             EXCEPT !.requests[r] = idle]

\* the (question id, answer) pairs the session is sent: a weekly payroll
\* questionnaire, a change of the frequencies, a payment answer
SessionSubmissions ==
  {<<Chars("q1_frequencies"), ListV(<<Chars("weekly")>>)>>,
   <<Chars("q1_frequencies"), ListV(<<Chars("monthly")>>)>>,
   <<Chars("q1_weekly_pattern"), StrV(Chars("mon-sun"))>>,
   <<Chars("q1_weekly_payday"), StrV(Chars("friday"))>>,
   <<Chars("business_") \o WeeklyKey, StrV(Chars("no"))>>,
   <<Chars("geographic_") \o WeeklyKey, StrV(Chars("mainland_only"))>>,
   <<Chars("q1_payment_method_p"), StrV(Chars("yes"))>>}

InitSession ==
  /\ module = "session"
  /\ answers = <<>>
  /\ current_question_id = None
  /\ current_question = NoQuestion
  /\ payroll_areas = <<>>
  /\ payment_methods = <<>>
  /\ done = FALSE
  /\ current_module = None
  /\ completed_modules = <<>>
  /\ export = NoExport
  /\ config = NoConfig
  /\ storage = NoStorage
  /\ store = NoStore

\* request.get("module", "payroll_area"): the two modules of the sequence and
\* a value that names no module
RequestedModules ==
  {Chars("payroll_area"), Chars("payment_method"), Chars("time_management")}

\* POST /api/start, with or without a bearer token
StartSession ==
  /\ module = "session"
  /\ store.memory = <<>> /\ store.db = <<>> /\ store.sessions = <<>>
  /\ \E m \in RequestedModules, u \in BOOLEAN :
       store' = start_session(store, m, u)
  /\ UNCHANGED <<answers, current_question_id, current_question, payroll_areas,
                 payment_methods, done, module, current_module, completed_modules,
                 export, config, storage>>

\* POST /api/answer arrives: the request is validated and awaits the user
ReceiveAnswer(r) ==
  /\ module = "session"
  /\ store.requests[r].pc = "idle"
  /\ store.status # "none"
  /\ \E s \in SessionSubmissions :
       store' = [store EXCEPT !.requests[r] =
                   [pc |-> "awaiting", question_id |-> s[1], answer |-> s[2],
                    pending |-> <<>>]]
  /\ UNCHANGED <<answers, current_question_id, current_question, payroll_areas,
                 payment_methods, done, module, current_module, completed_modules,
                 export, config, storage>>

\* the request resumes and runs to its response; overlapped notes whether
\* a request has run while another request of the session was in flight
Advance(r) ==
  /\ module = "session"
  /\ store.requests[r].pc = "awaiting"
  /\ store' = [submit_answer(store, r) EXCEPT !.overlapped =
                 \/ store.overlapped
                 \/ \E o \in 1..MaxRequests : o # r /\ store.requests[o].pc = "awaiting"]
  /\ UNCHANGED <<answers, current_question_id, current_question, payroll_areas,
                 payment_methods, done, module, current_module, completed_modules,
                 export, config, storage>>

\* the server process is restarted: the MemorySaver, the legacy dict and the
\* requests in flight are gone, the database stays
Restart ==
  /\ module = "session"
  /\ store.memory # <<>>
  /\ store' = [NoStore EXCEPT !.db = store.db, !.authed = store.authed,
                              !.status = "restarted"]
  /\ UNCHANGED <<answers, current_question_id, current_question, payroll_areas,
                 payment_methods, done, module, current_module, completed_modules,
                 export, config, storage>>

NextSession ==
  StartSession \/ (\E r \in 1..MaxRequests : ReceiveAnswer(r) \/ Advance(r)) \/ Restart

SpecSession == InitSession /\ [][NextSession]_vars

----------------------------------------------------------------------------
(* The catalog operations, one per run, on files written by earlier accepted
   saves and uploads *)

\* the question objects of the documents: each of id, text and type present
\* or missing, choices a list or a string where the type is multiple_choice
CatalogQuestions ==
  {[id |-> i, text |-> x, type |-> None, choices |-> NoneV] :
     i \in {None, Chars("q1"), Chars("q2")}, x \in {None, Chars("Bank A, Bank B")}}
  \cup
  {[id |-> i, text |-> x, type |-> Chars("multiple_choice"), choices |-> c] :
     i \in {None, Chars("q1"), Chars("q2")}, x \in {None, Chars("Bank A, Bank B")},
     c \in {NoneV, ListV(<<>>), StrV(Chars("yes"))}}

\* the documents: up to MaxQuestions questions, or no "questions" list
Catalogs ==
  {[has_list |-> FALSE, questions |-> <<>>]}
  \cup {[has_list |-> TRUE, questions |-> qs] :
          qs \in UNION {[1..n -> CatalogQuestions] : n \in 0..MaxQuestions}}

\* the documents an accepted save or upload can have written
StoredCatalogs == {c \in Catalogs : validate_questions_schema(c)}

InitCatalog ==
  /\ module = "config"
  /\ answers = <<>>
  /\ current_question_id = None
  /\ current_question = NoQuestion
  /\ payroll_areas = <<>>
  /\ payment_methods = <<>>
  /\ done = FALSE
  /\ current_module = None
  /\ completed_modules = <<>>
  /\ export = NoExport
  /\ store = NoStore
  /\ storage = NoStorage
  /\ \E o \in StoredCatalogs, c \in StoredCatalogs :
       config = [NoConfig EXCEPT !.original = o, !.current = c]

\* PUT /api/config/questions/current
SaveCurrent ==
  /\ module = "config"
  /\ config.op = "none"
  /\ \E data \in Catalogs :
       config' = [save_current_questions(config, data) EXCEPT !.op = "save", !.given = data]
  /\ UNCHANGED <<answers, current_question_id, current_question, payroll_areas,
                 payment_methods, done, module, current_module, completed_modules,
                 export, store, storage>>

\* POST /api/config/questions/upload
UploadQuestions ==
  /\ module = "config"
  /\ config.op = "none"
  /\ \E data \in Catalogs :
       config' = [init_from_upload(config, data) EXCEPT !.op = "upload", !.given = data]
  /\ UNCHANGED <<answers, current_question_id, current_question, payroll_areas,
                 payment_methods, done, module, current_module, completed_modules,
                 export, store, storage>>

\* GET /api/config/questions/current
LoadCurrent ==
  /\ module = "config"
  /\ config.op = "none"
  /\ config' = [load_current_questions(config) EXCEPT !.op = "load", !.given = config.current]
  /\ UNCHANGED <<answers, current_question_id, current_question, payroll_areas,
                 payment_methods, done, module, current_module, completed_modules,
                 export, store, storage>>

\* POST /api/config/questions/restore
RestoreOriginal ==
  /\ module = "config"
  /\ config.op = "none"
  /\ config' = [restore_original(config) EXCEPT !.op = "restore", !.given = config.original]
  /\ UNCHANGED <<answers, current_question_id, current_question, payroll_areas,
                 payment_methods, done, module, current_module, completed_modules,
                 export, store, storage>>

\* a router module is imported: its catalog file, whatever it holds, is indexed
LoadQuestions ==
  /\ module = "config"
  /\ config.op = "none"
  /\ \E data \in Catalogs :
       config' = [load_questions(config, data) EXCEPT !.op = "load_questions", !.given = data]
  /\ UNCHANGED <<answers, current_question_id, current_question, payroll_areas,
                 payment_methods, done, module, current_module, completed_modules,
                 export, store, storage>>

NextCatalog ==
  SaveCurrent \/ UploadQuestions \/ LoadCurrent \/ RestoreOriginal \/ LoadQuestions

SpecCatalog == InitCatalog /\ [][NextCatalog]_vars

----------------------------------------------------------------------------
(* Answers that are not among the options: the request body's answer is stored
   as it is, the handler checks only that it is not None *)

\* the (question id, answer) pairs of a client that also writes the weekly
\* pattern with an underscore, or a payday of its own
FreeSubmissions ==
  ({Chars("q1_frequencies")} \X {ListV(<<Chars("weekly")>>), StrV(Chars("weekly"))})
  \cup ({Chars("q1_weekly_pattern")} \X
          {StrV(Chars("mon-sun")), StrV(Chars("mon_sun")), StrV(Chars("sun-sat"))})
  \cup ({Chars("q1_weekly_payday")} \X {StrV(Chars("friday")), StrV(Chars("thursday"))})
  \cup ({Chars("business_") \o WeeklyKey} \X YesNo)
  \cup ({Chars("business_names_") \o WeeklyKey} \X {StrV(Chars("IT, Finance"))})
  \cup ({Chars("geographic_") \o WeeklyKey} \X GeographicAnswers)

\* submit_answer with such a pair
SubmitFreeAnswer ==
  /\ module = "payroll_area"
  /\ current_question_id # None \/ done
  /\ \E s \in FreeSubmissions :
       /\ answers' = Put(answers, s[1], s[2])
       /\ Invoke(answers')
  /\ UNCHANGED <<module, current_module, completed_modules, export, config, store, storage>>

NextFree == Start \/ SubmitFreeAnswer

SpecFree == Init /\ [][NextFree]_vars

----------------------------------------------------------------------------
(* Module data saved and loaded through ReachNettDataManager *)

\* the payload of tests/test_reachnett_data_manager.py
module_payload ==
  DictV(<<
    <<Chars("module"), StrV(Chars("questions"))>>,
    <<Chars("items"),
      ListV(<<DictV(<< <<Chars("id"), IntV(1)>>, <<Chars("key"), StrV(Chars("first"))>> >>),
              DictV(<< <<Chars("id"), IntV(2)>>, <<Chars("key"), StrV(Chars("second"))>> >>)>>)>>
  >>)

\* a document with a quoted word, a negative number, a boolean, a null and an
\* empty list
OtherPayload ==
  DictV(<<
    <<Chars("note"), StrV(Chars("say ") \o Quote \o Chars("hi") \o Quote \o <<"\\">>)>>,
    <<Chars("count"), IntV(0 - 12)>>,
    <<Chars("active"), BoolV(TRUE)>>,
    <<Chars("extra"), NoneV>>,
    <<Chars("tags"), ListV(<<>>)>>
  >>)

Documents == {DictV(<<>>), module_payload, OtherPayload}

\* the (customer, company code, module) triples of the calls
Triples ==
  {<<Chars("acme"), Chars("1000"), Chars("questions")>>,
   <<Chars("acme"), Chars("1000"), Chars("payroll")>>,
   <<Chars("acme"), Chars("2000"), Chars("questions")>>,
   <<Chars("beta"), Chars("1000"), Chars("questions")>>}

InitStorage ==
  /\ module = "storage"
  /\ answers = <<>>
  /\ current_question_id = None
  /\ current_question = NoQuestion
  /\ payroll_areas = <<>>
  /\ payment_methods = <<>>
  /\ done = FALSE
  /\ current_module = None
  /\ completed_modules = <<>>
  /\ export = NoExport
  /\ config = NoConfig
  /\ store = NoStore
  /\ storage = NoStorage

\* manager.save_module(customer, company_code, module, data); the upload
\* service is reachable or not
SaveModule ==
  /\ module = "storage"
  /\ storage.saves < MaxSaves
  /\ \E tr \in Triples, data \in Documents, reachable \in BOOLEAN :
       storage' = save_module(storage, tr[1], tr[2], tr[3], data, reachable)
  /\ UNCHANGED <<answers, current_question_id, current_question, payroll_areas,
                 payment_methods, done, module, current_module, completed_modules,
                 export, config, store>>

\* manager.load_module(customer, company_code, module)
LoadModule ==
  /\ module = "storage"
  /\ \E tr \in Triples :
       storage' = load_module(storage, tr[1], tr[2], tr[3])
  /\ UNCHANGED <<answers, current_question_id, current_question, payroll_areas,
                 payment_methods, done, module, current_module, completed_modules,
                 export, config, store>>

NextStorage == SaveModule \/ LoadModule

SpecStorage == InitStorage /\ [][NextStorage]_vars

----------------------------------------------------------------------------
(* app/main.py: the callers of one session id.  A caller presents the token
   of a user or none; the database row of the session holds the user_id it
   was written with *)

MaxUsers == 2

Users == 1..MaxUsers

\* get_optional_user: None, or the user of the token
Callers == {<<>>} \cup {<<u>> : u \in Users}

NoOwned ==
  [memory |-> <<>>, db |-> <<>>, sessions |-> <<>>, caller |-> <<>>,
   op |-> "none", status |-> "none"]

\* the name of a module in the database
module_db_name(m) ==
  IF m = Chars("payroll_area") THEN Chars("payroll area")
  ELSE IF m = Chars("payment_method") THEN Chars("payment method")
  ELSE m

\* database.create_session: INSERT OR REPLACE of the row of the session id
create_session(st, user_id, config_state, m) ==
  [st EXCEPT !.db = <<[user_id |-> user_id, config_state |-> config_state,
                       module |-> m]>>]

\* the result of the graph is in the MemorySaver checkpoint; it is written to
\* the database under the caller's user_id, or to the legacy dict
StoreResult(st, current_user, result, m) ==
  IF current_user # <<>>
  THEN [create_session(st, current_user[1], result, module_db_name(m))
          EXCEPT !.memory = <<result>>, !.status = "ok"]
  ELSE [st EXCEPT !.memory = <<result>>, !.sessions = <<result>>, !.status = "ok"]

\* start_session of a caller
start_session_as(st, requested_module, current_user) ==
  StoreResult(st, current_user,
              master_router([answers |-> <<>>, current_question_id |-> None,
                             current_question |-> NoQuestion, payroll_areas |-> <<>>,
                             payment_methods |-> <<>>, done |-> FALSE,
                             current_module |-> requested_module,
                             completed_modules |-> <<>>]),
              requested_module)

\* 1) of submit_answer: MemorySaver, then the database row if it is the
\* caller's, then the legacy dict
LoadStateAs(st, current_user) ==
  IF st.memory # <<>> THEN st.memory
  ELSE IF current_user # <<>> /\ st.db # <<>> /\ st.db[1].user_id = current_user[1]
  THEN <<st.db[1].config_state>>
  ELSE st.sessions

StoreAnswered(st, current_user, result) ==
  StoreResult(st, current_user, result,
              IF result.current_module = None THEN Chars("payroll_area")
              ELSE result.current_module)

\* submit_answer of a caller
submit_answer_as(st, current_user, question_id, answer) ==
  IF LoadStateAs(st, current_user) = <<>>
  THEN [st EXCEPT !.status = "HTTP 404"]
  ELSE StoreAnswered(st, current_user,
         master_router([LoadStateAs(st, current_user)[1] EXCEPT
                          !.answers = Put(@, question_id, answer)]))

\* save_session: the state of the legacy dict, else of the database row,
\* written under the caller's user_id
save_session(st, current_user, m) ==
  IF current_user = <<>> THEN [st EXCEPT !.status = "HTTP 401"]
  ELSE IF st.sessions # <<>>
  THEN [create_session(st, current_user[1], st.sessions[1], m) EXCEPT !.status = "ok"]
  ELSE IF st.db # <<>>
  THEN [create_session(st, current_user[1], st.db[1].config_state, m)
          EXCEPT !.status = "ok"]
  ELSE [st EXCEPT !.status = "HTTP 404"]

\* load_session: the row is read by its user only
load_session(st, current_user) ==
  IF current_user = <<>> THEN [st EXCEPT !.status = "HTTP 401"]
  ELSE IF st.db = <<>> THEN [st EXCEPT !.status = "HTTP 404"]
  ELSE IF st.db[1].user_id # current_user[1] THEN [st EXCEPT !.status = "HTTP 403"]
  ELSE [st EXCEPT !.status = "ok"]

\* delete_session: the row is deleted by its user only
delete_session(st, current_user) ==
  IF current_user = <<>> THEN [st EXCEPT !.status = "HTTP 401"]
  ELSE IF st.db = <<>> THEN [st EXCEPT !.status = "HTTP 404"]
  ELSE IF st.db[1].user_id # current_user[1] THEN [st EXCEPT !.status = "HTTP 403"]
  ELSE [st EXCEPT !.db = <<>>, !.status = "ok"]

\* the (question id, answer) pairs the callers submit
OwnedSubmissions ==
  {<<Chars("q1_frequencies"), ListV(<<Chars("weekly")>>)>>,
   <<Chars("q1_frequencies"), ListV(<<Chars("monthly")>>)>>,
   <<Chars("q1_weekly_pattern"), StrV(Chars("mon-sun"))>>,
   <<Chars("q1_weekly_payday"), StrV(Chars("friday"))>>}

InitOwned ==
  /\ module = "owned"
  /\ answers = <<>>
  /\ current_question_id = None
  /\ current_question = NoQuestion
  /\ payroll_areas = <<>>
  /\ payment_methods = <<>>
  /\ done = FALSE
  /\ current_module = None
  /\ completed_modules = <<>>
  /\ export = NoExport
  /\ config = NoConfig
  /\ storage = NoStorage
  /\ store = NoOwned

Called(st, op, current_user) == [st EXCEPT !.op = op, !.caller = current_user]

\* POST /api/start
StartAs ==
  /\ module = "owned"
  /\ store.memory = <<>> /\ store.db = <<>> /\ store.sessions = <<>>
  /\ \E u \in Callers :
       store' = Called(start_session_as(store, Chars("payroll_area"), u), "start", u)
  /\ UNCHANGED <<answers, current_question_id, current_question, payroll_areas,
                 payment_methods, done, module, current_module, completed_modules,
                 export, config, storage>>

\* POST /api/answer
AnswerAs ==
  /\ module = "owned"
  /\ store.status # "none"
  /\ \E u \in Callers, s \in OwnedSubmissions :
       store' = Called(submit_answer_as(store, u, s[1], s[2]), "answer", u)
  /\ UNCHANGED <<answers, current_question_id, current_question, payroll_areas,
                 payment_methods, done, module, current_module, completed_modules,
                 export, config, storage>>

\* POST /api/sessions/save
SaveAs ==
  /\ module = "owned"
  /\ store.status # "none"
  /\ \E u \in Callers, m \in {Chars("payroll area"), Chars("payment method")} :
       store' = Called(save_session(store, u, m), "save", u)
  /\ UNCHANGED <<answers, current_question_id, current_question, payroll_areas,
                 payment_methods, done, module, current_module, completed_modules,
                 export, config, storage>>

\* GET /api/sessions/{session_id}
LoadAs ==
  /\ module = "owned"
  /\ store.status # "none"
  /\ \E u \in Callers : store' = Called(load_session(store, u), "load", u)
  /\ UNCHANGED <<answers, current_question_id, current_question, payroll_areas,
                 payment_methods, done, module, current_module, completed_modules,
                 export, config, storage>>

\* DELETE /api/sessions/{session_id}
DeleteAs ==
  /\ module = "owned"
  /\ store.status # "none"
  /\ \E u \in Callers : store' = Called(delete_session(store, u), "delete", u)
  /\ UNCHANGED <<answers, current_question_id, current_question, payroll_areas,
                 payment_methods, done, module, current_module, completed_modules,
                 export, config, storage>>

\* the server process is restarted: the MemorySaver and the legacy dict are
\* gone, the database stays
RestartOwned ==
  /\ module = "owned"
  /\ store.memory # <<>>
  /\ store' = [NoOwned EXCEPT !.db = store.db, !.op = "restart", !.status = "restarted"]
  /\ UNCHANGED <<answers, current_question_id, current_question, payroll_areas,
                 payment_methods, done, module, current_module, completed_modules,
                 export, config, storage>>

NextOwned == StartAs \/ AnswerAs \/ SaveAs \/ LoadAs \/ DeleteAs \/ RestartOwned

SpecOwned == InitOwned /\ [][NextOwned]_vars

----------------------------------------------------------------------------
(* Vocabulary of the properties *)

PatternId(f) == Chars("q1_") \o f \o Chars("_pattern")
PaydayId(f) == Chars("q1_") \o f \o Chars("_payday")
BusinessId(c) == Chars("business_") \o c.key
BusinessNamesId(c) == Chars("business_names_") \o c.key
GeographicId(c) == Chars("geographic_") \o c.key
RegionsId(c) == Chars("regions_") \o c.key

Answered(a, qid) == qid \in DOMAIN a
Is(a, qid, s) == Answered(a, qid) /\ a[qid] = StrV(Chars(s))

\* frequency f has its payday and, unless monthly, its pattern
FrequencyDone(a, f) ==
  Answered(a, PaydayId(f)) /\ (f # Chars("monthly") => Answered(a, PatternId(f)))

FrequenciesDone(a) ==
  /\ Answered(a, Chars("q1_frequencies"))
  /\ \A i \in 1..Len(Frequencies(a)) : FrequencyDone(a, Frequencies(a)[i])

\* the questions combo c requires under a, in the order they are to be asked
RequiredOfCombo(a, c) ==
  <<BusinessId(c)>>
  \o (IF Is(a, BusinessId(c), "yes") THEN <<BusinessNamesId(c)>> ELSE <<>>)
  \o <<GeographicId(c)>>
  \o (IF Is(a, GeographicId(c), "multiple") THEN <<RegionsId(c)>> ELSE <<>>)

MissingOfCombo(a, c) == SelectSeq(RequiredOfCombo(a, c), LAMBDA q : ~Answered(a, q))

ComboDone(a, c) == MissingOfCombo(a, c) = <<>>

\* every required question is answered
Satisfied(a) ==
  /\ FrequenciesDone(a)
  /\ \A i \in 1..Len(get_calendar_combos(a)) : ComboDone(a, get_calendar_combos(a)[i])

\* the least position of seq whose element does not satisfy Ok
FirstNot(seq, Ok(_)) ==
  CHOOSE i \in 1..Len(seq) : ~Ok(seq[i]) /\ \A j \in 1..(i - 1) : Ok(seq[j])

IsDynamicId(q) ==
  \/ StartsWith(q, Chars("business_"))
  \/ StartsWith(q, Chars("geographic_"))
  \/ StartsWith(q, Chars("regions_"))

Started == current_question_id # None \/ done

----------------------------------------------------------------------------
(* C1: the payroll-area router returns q1_frequencies whenever it is not
   answered; once it is answered and some selected frequency still lacks a
   question, the router returns the question of the first such frequency in
   selection order: its pattern if it is not monthly and the pattern is
   missing, else its payday. *)
C1_FrequencyOrder ==
  LET a == answers
      q == determine_next_question(a)[1]
      F == Frequencies(a)
      FDone(f) == FrequencyDone(a, f)
  IN /\ ~Answered(a, Chars("q1_frequencies")) => q = Chars("q1_frequencies")
     /\ (Answered(a, Chars("q1_frequencies")) /\ ~FrequenciesDone(a)) =>
          LET f == F[FirstNot(F, FDone)]
          IN q = IF f # Chars("monthly") /\ ~Answered(a, PatternId(f))
                 THEN PatternId(f) ELSE PaydayId(f)

\* the pattern of the first frequency is asked although the payday of a later
\* frequency is already answered
C1_Witness ==
  /\ module = "payroll_area"
  /\ Frequencies(answers) = <<Chars("weekly"), Chars("monthly")>>
  /\ Answered(answers, Chars("q1_monthly_payday"))
  /\ ~Answered(answers, Chars("q1_weekly_pattern"))
  /\ current_question_id = Chars("q1_weekly_pattern")

(* C2: while a selected frequency lacks its pattern or payday the router
   returns no per-combo question; afterwards it returns, for the first combo
   with a required question missing, the first missing one of business_,
   business_names_ (required only when business is "yes"), geographic_,
   regions_ (required only when geographic is "multiple"), with the dynamic
   question object generated for that combo. *)
C2_ComboOrder ==
  LET a == answers
      r == determine_next_question(a)
      C == get_calendar_combos(a)
      CDone(c) == ComboDone(a, c)
  IN /\ ~FrequenciesDone(a) =>
          r[2] = NoQuestion /\ ~IsDynamicId(r[1])
     /\ (FrequenciesDone(a) /\ ~Satisfied(a)) =>
          LET c == C[FirstNot(C, CDone)]
          IN /\ r[1] = Head(MissingOfCombo(a, c))
             /\ r[2].id = r[1]
             /\ r[2].label = c.label
             /\ r[2].kind = (IF r[1] = BusinessId(c) THEN "business"
                             ELSE IF r[1] = BusinessNamesId(c) THEN "business_names"
                             ELSE IF r[1] = GeographicId(c) THEN "geographic"
                             ELSE "regions")

\* the first combo is finished, with business-unit names, and the router asks
\* the first question of the second combo
C2_Witness ==
  LET C == get_calendar_combos(answers)
  IN /\ module = "payroll_area"
     /\ FrequenciesDone(answers)
     /\ Len(C) = 2
     /\ Is(answers, BusinessId(C[1]), "yes")
     /\ Is(answers, GeographicId(C[1]), "multiple")
     /\ ComboDone(answers, C[1])
     /\ C[2].key # C[1].key
     /\ current_question_id = BusinessId(C[2])
     /\ current_question.kind = "business"

(* C3: the payroll-area router returns (None, None) exactly when every
   required question is answered, and a payroll-area session is done exactly
   then, its payroll areas being those generated from its answers. *)
C3_CompletionIffSatisfied ==
  /\ (determine_next_question(answers)[1] = None) <=> Satisfied(answers)
  /\ module = "payroll_area" =>
       /\ done <=> Satisfied(answers)
       /\ done => /\ current_question_id = None
                  /\ payroll_areas = generate_payroll_areas(answers)
       /\ (Started /\ ~done) => current_question_id # None

\* a session completed over two combos, one of them with names and regions
C3_Witness ==
  LET C == get_calendar_combos(answers)
  IN /\ module = "payroll_area"
     /\ done
     /\ Len(C) = 2
     /\ C[2].key # C[1].key
     /\ \E i \in 1..2 : /\ Answered(answers, BusinessNamesId(C[i]))
                        /\ Answered(answers, RegionsId(C[i]))
     /\ Len(payroll_areas) > 2

(* C4: from the empty answer set, a caller who answers only the question
   the payroll-area router returned reaches completion within
   1 + 6 * |frequencies| answers: the answer set never holds more than
   1 + 6 * |frequencies| keys, every invocation of the router either
   completes or opens a question, and every answer adds one key to the
   answer set and leaves the frequency selection, once made, as it is. *)
C4_GuidedCompletion ==
  /\ [](module = "payroll_area" =>
          Cardinality(DOMAIN answers) <= 1 + 6 * Len(Frequencies(answers)))
  /\ [][module = "payroll_area" =>
          /\ done' \/ current_question_id' # None
          /\ Started =>
                /\ Cardinality(DOMAIN answers') = Cardinality(DOMAIN answers) + 1
                /\ Answered(answers, Chars("q1_frequencies")) =>
                      Frequencies(answers') = Frequencies(answers)]_vars

\* a completed session in which two frequencies took all six questions each
C4_Witness ==
  /\ module = "payroll_area"
  /\ done
  /\ Len(Frequencies(answers)) = 2
  /\ Cardinality(DOMAIN answers) = 13

(* C5: neither router returns a question id that is a key of the answer set,
   and the question a session has open is never an answered one. *)
C5_NeverReasks ==
  /\ determine_next_question(answers)[1] \notin DOMAIN answers
  /\ payment_determine_next_question(answers)[1] \notin DOMAIN answers
  /\ current_question_id \notin DOMAIN answers

\* a payment session in which a detail question was answered out of turn and
\* the router moved on to a later governing question
C5_Witness ==
  /\ module = "payment_method"
  /\ Is(answers, Chars("q1_payment_method_p"), "yes")
  /\ Answered(answers, Chars("q1_p_ach_spec"))
  /\ Answered(answers, Chars("q3_payment_method_k"))
  /\ current_question_id = Chars("q1_p_house_banks")

----------------------------------------------------------------------------
(* Vocabulary of the generator's properties *)

\* the units and regions the areas of combo c are generated for
UnitsOfCombo(a, c) ==
  IF Is(a, BusinessId(c), "yes")
       /\ BusinessNames(Get(a, BusinessNamesId(c), StrV(<<>>)).v) # <<>>
  THEN BusinessNames(Get(a, BusinessNamesId(c), StrV(<<>>)).v)
  ELSE <<None>>

RegionsOfCombo(a, c) ==
  IF Is(a, GeographicId(c), "multiple")
  THEN AsList(Get(a, RegionsId(c), ListV(<<Chars("mainland")>>)))
  ELSE <<None>>

CountOfCombo(a, c) == Len(UnitsOfCombo(a, c)) * Len(RegionsOfCombo(a, c))

\* the number of areas of the combos before position i
RECURSIVE AreasBefore(_, _, _)
AreasBefore(a, C, i) ==
  IF i <= 1 THEN 0 ELSE AreasBefore(a, C, i - 1) + CountOfCombo(a, C[i - 1])

BaseOf(f) ==
  IF f = Chars("weekly") THEN 80
  ELSE IF f = Chars("biweekly") THEN 20
  ELSE IF f = Chars("semimonthly") THEN 30
  ELSE IF f = Chars("monthly") THEN 40
  ELSE 90

SameTriple(x, y) ==
  x.frequency = y.frequency /\ x.pattern = y.pattern /\ x.payday = y.payday

ScenarioB ==
  (Chars("q1_frequencies") :> ListV(<<Chars("weekly")>>))
  @@ (Chars("q1_weekly_pattern") :> StrV(Chars("mon-sun")))
  @@ (Chars("q1_weekly_payday") :> StrV(Chars("friday")))
  @@ (Chars("business_weekly_monsun_friday") :> StrV(Chars("yes")))
  @@ (Chars("business_names_weekly_monsun_friday") :> StrV(Chars("IT, Finance")))
  @@ (Chars("geographic_weekly_monsun_friday") :> StrV(Chars("multiple")))
  @@ (Chars("regions_weekly_monsun_friday") :> ListV(<<Chars("hawaii"), Chars("mainland")>>))

----------------------------------------------------------------------------
(* C6: the areas generated for one element of the combo list all carry one
   calendarId, the decimal string of base(frequency) plus the number of areas
   generated for the elements before it, with base weekly 80, biweekly 20,
   semimonthly 30, monthly 40 and 90 otherwise. *)
C6_CalendarIdPerCombo ==
  LET a == answers
      C == get_calendar_combos(a)
      areas == generate_payroll_areas(a)
  IN \A i \in 1..Len(C) :
       \A k \in (AreasBefore(a, C, i) + 1)..AreasBefore(a, C, i + 1) :
         /\ k <= Len(areas)
         /\ areas[k].calendarId = IntToStr(BaseOf(C[i].frequency) + AreasBefore(a, C, i))

\* a completed session whose second combo starts after several areas of the first
C6_Witness ==
  LET C == get_calendar_combos(answers)
  IN /\ done
     /\ Len(C) = 2
     /\ CountOfCombo(answers, C[1]) = 4
     /\ CountOfCombo(answers, C[2]) = 2
     /\ payroll_areas[6].calendarId = IntToStr(BaseOf(C[2].frequency) + 4)
     /\ payroll_areas[5].calendarId = payroll_areas[6].calendarId

(* C7: in a completed session no two elements of the combo list have the
   same (frequency, pattern, payday), and the generated areas with the same
   (frequency, pattern, payday) have the same calendarId. *)
C7_DuplicatesCollapse ==
  (module = "payroll_area" /\ done) =>
    LET C == get_calendar_combos(answers)
        areas == payroll_areas
    IN /\ \A i, j \in 1..Len(C) : SameTriple(C[i], C[j]) => i = j
       /\ \A k, l \in 1..Len(areas) :
            (/\ areas[k].frequency = areas[l].frequency
             /\ areas[k].periodPattern = areas[l].periodPattern
             /\ areas[k].payDay = areas[l].payDay)
            => areas[k].calendarId = areas[l].calendarId

(* C8: for each combo the generator emits |units| x |regions| areas, units
   in the outer loop and regions in the inner loop, each list in the order
   given: the units are the trimmed non-empty comma-separated names when
   business is "yes" and there is one, else one unattributed unit; the
   regions are the regions answer when geographic is "multiple", else one
   unattributed region.  Scenario B yields four areas: IT and Finance, each
   for hawaii and for the mainland. *)
C8_CrossProduct ==
  LET a == answers
      C == get_calendar_combos(a)
      areas == generate_payroll_areas(a)
      B == generate_payroll_areas(ScenarioB)
  IN /\ Len(areas) = AreasBefore(a, C, Len(C) + 1)
     /\ \A i \in 1..Len(C) :
          LET U == UnitsOfCombo(a, C[i])
              R == RegionsOfCombo(a, C[i])
          IN \A j \in 1..Len(U) : \A k \in 1..Len(R) :
               LET area == areas[AreasBefore(a, C, i) + (j - 1) * Len(R) + k]
               IN /\ area.businessUnit = U[j]
                  /\ area.region = (IF R[k] = Chars("mainland") THEN None ELSE R[k])
                  /\ SameTriple([frequency |-> area.frequency, pattern |-> area.periodPattern,
                                 payday |-> area.payDay], C[i])
     /\ a = ScenarioB =>
          /\ payroll_areas = B
          /\ [n \in 1..Len(B) |-> B[n].businessUnit]
               = <<Chars("IT"), Chars("IT"), Chars("Finance"), Chars("Finance")>>
          /\ [n \in 1..Len(B) |-> B[n].region]
               = <<Chars("hawaii"), None, Chars("hawaii"), None>>

\* Scenario B, completed
C8_Witness == answers = ScenarioB /\ done /\ Len(payroll_areas) = 4

(* C9: the codes of the generated areas are Z1, Z2, ..., Zn in the order of
   the list. *)
C9_SequentialCodes ==
  LET areas == generate_payroll_areas(answers)
  IN \A k \in 1..Len(areas) : areas[k].code = Chars("Z") \o IntToStr(k)

\* a completed session with areas of two combos
C9_Witness ==
  /\ done
  /\ Len(get_calendar_combos(answers)) = 2
  /\ Len(payroll_areas) = 8
  /\ payroll_areas[8].code = <<"Z", "8">>

(* C10: the description of every generated area has at most 20 characters. *)
C10_DescriptionLength ==
  LET areas == generate_payroll_areas(answers)
  IN \A k \in 1..Len(areas) : Len(areas[k].description) <= 20

\* an area whose joined description parts exceed 20 characters
C10_Witness ==
  /\ done
  /\ \E k \in 1..Len(payroll_areas) :
       LET x == payroll_areas[k]
       IN /\ Len(Join(desc_parts(x.frequency, x.payDay, x.businessUnit, x.region))) > 20
          /\ Len(x.description) = 20

----------------------------------------------------------------------------
ScenarioA ==
  (Chars("q1_frequencies") :> ListV(<<Chars("weekly")>>))
  @@ (Chars("q1_weekly_pattern") :> StrV(Chars("mon-sun")))
  @@ (Chars("q1_weekly_payday") :> StrV(Chars("friday")))
  @@ (Chars("business_weekly_monsun_friday") :> StrV(Chars("no")))
  @@ (Chars("geographic_weekly_monsun_friday") :> StrV(Chars("mainland_only")))

\* the areas the generator emits for the one calendar c, on its own
AreasOfCombo(a, c) ==
  AreaLoop(a, <<c>>, 1, [areas |-> <<>>, area_num |-> 1]).areas

(* C11: every area of a combo whose business answer is not "yes" has
   businessUnit None; every area of a combo whose geographic answer is not
   "multiple" has region None, and so has every area whose raw region is
   "mainland"; a combo with neither separation yields exactly one area.
   Scenario A yields exactly one area: code Z1, calendarId "80",
   businessUnit None, region None. *)
C11_NoSeparation ==
  LET a == answers
      C == get_calendar_combos(a)
      A == generate_payroll_areas(ScenarioA)
  IN /\ \A i \in 1..Len(C) :
          LET c == C[i]
              X == AreasOfCombo(a, c)
              raw == Regions(a, c.key)
              units == BusinessUnits(a, c.key)
          IN /\ ~Is(a, BusinessId(c), "yes") =>
                  \A k \in 1..Len(X) : X[k].businessUnit = None
             /\ ~Is(a, GeographicId(c), "multiple") =>
                  \A k \in 1..Len(X) : X[k].region = None
             /\ Len(X) = Len(units) * Len(raw)
             /\ \A j \in 1..Len(units) : \A k \in 1..Len(raw) :
                  raw[k] = Chars("mainland") => X[(j - 1) * Len(raw) + k].region = None
             /\ (~Is(a, BusinessId(c), "yes") /\ ~Is(a, GeographicId(c), "multiple")) =>
                  Len(X) = 1
     /\ Len(A) = 1
     /\ A[1].code = <<"Z", "1">>
     /\ A[1].calendarId = <<"8", "0">>
     /\ A[1].businessUnit = None
     /\ A[1].region = None
     /\ (a = ScenarioA /\ done) => payroll_areas = A

\* Scenario A, completed
C11_Witness ==
  /\ answers = ScenarioA
  /\ done
  /\ Len(payroll_areas) = 1
  /\ payroll_areas[1].region = None
  /\ payroll_areas[1].businessUnit = None

----------------------------------------------------------------------------
\* a graph has been invoked on the state
Invoked == done \/ current_question_id # None

\* a answers every question of the payment catalog
CoversAll(a) == \A i \in 1..Len(QUESTIONS) : QUESTIONS[i].id \in DOMAIN a

\* the governing question of each yes/no method, in the order of emission
Governing ==
  <<Chars("q1_payment_method_p"), Chars("q2_payment_method_q"),
    Chars("q3_payment_method_k"), Chars("q4_payment_method_m")>>

\* methods is the five records P, Q, K, M, PRE_NOTE that a calls for
FiveRecords(a, methods) ==
  /\ Len(methods) = 5
  /\ [n \in 1..5 |-> methods[n].code] = <<"P", "Q", "K", "M", "PRE_NOTE">>
  /\ \A n \in 1..4 : methods[n].used = IsYes(a[Governing[n]])
  /\ methods[1].used =>
       /\ methods[1].detail1 = a[Chars("q1_p_house_banks")]
       /\ methods[1].detail2 = a[Chars("q1_p_ach_spec")]
  /\ methods[2].used =>
       /\ methods[2].detail1 = a[Chars("q2_q_volume")]
       /\ methods[2].detail2 = a[Chars("q2_q_check_range")]
  /\ methods[5].used = (a[Chars("q5_pre_note_confirmation")] = StrV(Chars("agree")))

\* the five-record result, for the graph of app/agents/payments alone
AgentsGraphFiveRecords ==
  (module = "payment_method" /\ CoversAll(answers) /\ Invoked) =>
    done /\ FiveRecords(answers, payment_methods)

(* C12: after a payment-method graph has been invoked on a state whose
   answers cover every payment question, done is true and payment_methods is
   exactly the five records P, Q, K, M, PRE_NOTE in that order, used true for
   "yes" and false for "no", the P and Q details copied from the answers, and
   agree_no_pre_note true exactly when the pre-note answer is "agree". *)
C12_FiveRecords ==
  (module \in {"payment_method", "backend.payment_method_graph"}
     /\ CoversAll(answers) /\ Invoked) =>
    done /\ FiveRecords(answers, payment_methods)


\* the app/agents/payments graph invoked on the answers of the repository's test
AgentsGraphWitness ==
  /\ module = "payment_method"
  /\ CoversAll(answers)
  /\ answers[Chars("q3_payment_method_k")] = StrV(Chars("no"))
  /\ done
  /\ Len(payment_methods) = 5

----------------------------------------------------------------------------
ScenarioC ==
  (Chars("q1_payment_method_p") :> StrV(Chars("yes")))
  @@ (Chars("q3_payment_method_k") :> StrV(Chars("no")))
  @@ (Chars("q5_pre_note_confirmation") :> StrV(Chars("agree")))

\* the positions of the records of one code
PositionsOf(methods, code) == {k \in 1..Len(methods) : methods[k].code = code}

(* C13: generate_payment_methods emits exactly one record for each of P, Q,
   K, M whose governing question is answered and none for one whose
   governing question is unanswered; it emits the PRE_NOTE record exactly
   when the pre-note question is answered, whatever the other four are.
   Scenario C yields exactly the records P (used), K (not used), PRE_NOTE. *)
C13_OnlyAnswered ==
  LET a == answers
      methods == generate_payment_methods(a)
      C == generate_payment_methods(ScenarioC)
      codes == <<"P", "Q", "K", "M">>
  IN /\ \A n \in 1..4 :
          Cardinality(PositionsOf(methods, codes[n]))
            = (IF Governing[n] \in DOMAIN a THEN 1 ELSE 0)
     /\ Cardinality(PositionsOf(methods, "PRE_NOTE"))
          = (IF Chars("q5_pre_note_confirmation") \in DOMAIN a THEN 1 ELSE 0)
     /\ \A k \in 1..Len(methods) : methods[k].code \in {"P", "Q", "K", "M", "PRE_NOTE"}
     /\ [n \in 1..Len(C) |-> C[n].code] = <<"P", "K", "PRE_NOTE">>
     /\ [n \in 1..Len(C) |-> C[n].used] = <<TRUE, FALSE, TRUE>>
     /\ (module = "payment_method" /\ ~Invoked /\ payment_methods # <<>>) =>
          payment_methods = methods

\* the generator has been called on Scenario C
C13_Witness ==
  /\ answers = ScenarioC
  /\ ~Invoked
  /\ Len(payment_methods) = 3
  /\ payment_methods[2].code = "K"
  /\ ~payment_methods[2].used

----------------------------------------------------------------------------
\* name is in the list of completed modules
IsCompleted(completed, name) == \E k \in 1..Len(completed) : completed[k] = name

\* r is what running module name on s gives: its next question with the
\* module still current, or the module marked complete with its output generated
Executed(name, s, r) ==
  LET q == IF name = Chars("payroll_area") THEN determine_next_question(s.answers)
           ELSE payment_determine_next_question(s.answers)
  IN IF q[1] # None
     THEN /\ r.current_question_id = q[1]
          /\ r.current_question = q[2]
          /\ r.current_module = name
          /\ r.completed_modules = s.completed_modules
          /\ ~r.done
     ELSE /\ r.current_question_id = None
          /\ r.completed_modules = Append(s.completed_modules, name)
          /\ IF name = Chars("payroll_area")
             THEN r.payroll_areas = generate_payroll_areas(s.answers)
                  /\ r.payment_methods = s.payment_methods
             ELSE r.payment_methods = generate_payment_methods(s.answers)
                  /\ r.payroll_areas = s.payroll_areas

\* the state has keys of the prefix family of a module other than its tag
OtherFamilyKeys(s) ==
  \/ s.current_module = Chars("payroll_area")
       /\ AnyKeyMatches(s.answers, PAYMENT_METHOD_QUESTION_PREFIXES)
  \/ s.current_module = Chars("payment_method")
       /\ AnyKeyMatches(s.answers, PAYROLL_AREA_QUESTION_PREFIXES)

(* C14: when master_router is invoked on a state whose current_module is one
   of the two modules and is not in completed_modules, the result is that of
   running that module, whatever keys the answers have; when current_module
   is set but completed, the module run is the first of the sequence not
   completed, whatever the keys: the keys decide only when the tag is
   missing. *)
C14_TagWins ==
  [][module = "master" =>
       LET s == MasterState
           r == MasterState'
           tag == s.current_module
       IN /\ (tag \in {Chars("payroll_area"), Chars("payment_method")}
                /\ ~IsCompleted(s.completed_modules, tag)) => Executed(tag, s, r)
          /\ (tag # None /\ IsCompleted(s.completed_modules, tag)) =>
               LET n == get_next_module(s.completed_modules)
               IN IF n = None THEN r.done /\ r.current_module = None
                  ELSE Executed(n, s, r)]_vars

\* the payroll module has run on a state tagged payroll_area whose answers
\* hold every payment-method key
C14_Witness ==
  /\ module = "master"
  /\ answers = (Chars("q1_frequencies") :> ListV(<<Chars("weekly")>>)) @@ TestAnswers
  /\ current_module = Chars("payroll_area")
  /\ completed_modules = <<>>
  /\ current_question_id = Chars("q1_weekly_pattern")

----------------------------------------------------------------------------
\* the state has no module tag and no key of either prefix family
Untagged(s) ==
  /\ s.current_module = None
  /\ ~AnyKeyMatches(s.answers, PAYMENT_METHOD_QUESTION_PREFIXES)
  /\ ~AnyKeyMatches(s.answers, PAYROLL_AREA_QUESTION_PREFIXES)

(* C15: when master_router is invoked on a state without a module tag whose
   answer keys match no prefix of either module, it runs no module: the
   question, the module tag, the completed modules and the generated outputs
   are left as they were. *)
C15_FailsWithoutModule ==
  [][(module = "master" /\ Untagged(MasterState)) =>
       /\ current_question_id' = current_question_id
       /\ current_module' = current_module
       /\ completed_modules' = completed_modules
       /\ payroll_areas' = payroll_areas
       /\ payment_methods' = payment_methods]_vars

(* C15, amended: when master_router is invoked on a state without a module
   tag whose answer keys match no prefix of either module, it runs the first
   module of MODULE_SEQUENCE that is not completed (payroll_area before
   payment_method), and reports done with no current module when both are
   completed. *)
C15_SequenceDefault ==
  [][(module = "master" /\ Untagged(MasterState)) =>
       LET s == MasterState
           r == MasterState'
           n == get_next_module(s.completed_modules)
       IN IF n = None THEN r.done /\ r.current_module = None
          ELSE Executed(n, s, r)]_vars

\* the payroll module has been run on answers whose only key is of no family
C15_Witness ==
  /\ module = "master"
  /\ DOMAIN answers = {Chars("companyName")}
  /\ current_module = Chars("payroll_area")
  /\ completed_modules = <<>>
  /\ current_question_id = Chars("q1_frequencies")
  /\ ~done

----------------------------------------------------------------------------
(* Vocabulary of the schedule properties *)

\* the date a "YYYYMMDD" field denotes, and its ordinal
ParseDate(s) ==
  Date(StrToInt(SubSeq(s, 1, 4)), StrToInt(SubSeq(s, 5, 6)), StrToInt(SubSeq(s, 7, 8)))

OrdinalOf(s) == toordinal(ParseDate(s))

PayPeriodDone == module = "export" /\ export.file = "pay-period"

PayDateDone == module = "export" /\ export.file = "pay-date"

\* the frequency of the request is f
ExportIs(f) == export.area.frequency = Chars(f)

(* C16: the pay-period rows generated for an area number 52 * num_years when
   its frequency is weekly, 26 * num_years when biweekly, 24 * num_years when
   semimonthly and 12 * num_years when monthly; for any other frequency they
   are the rows of the weekly schedule, 52 * num_years windows of 7 days. *)
C16_RowCounts ==
  PayPeriodDone =>
    LET rows == export.rows
        n == export.num_years
        f == export.area.frequency
    IN /\ ExportIs("weekly") => Len(rows) = 52 * n
       /\ ExportIs("biweekly") => Len(rows) = 26 * n
       /\ ExportIs("semimonthly") => Len(rows) = 24 * n
       /\ ExportIs("monthly") => Len(rows) = 12 * n
       /\ f \notin {Chars("weekly"), Chars("biweekly"), Chars("semimonthly"),
                    Chars("monthly")} =>
            /\ Len(rows) = 52 * n
            /\ rows = generate_pay_period_csv([export.area EXCEPT !.frequency = Chars("weekly")], n)
            /\ \A k \in 1..Len(rows) :
                 OrdinalOf(rows[k].period_end_date) - OrdinalOf(rows[k].period_begin_date) = 6

\* the two-year schedule generated for a frequency that is none of the four
C16_Witness ==
  /\ PayPeriodDone
  /\ ExportIs("quarterly")
  /\ export.num_years = 2
  /\ Len(export.rows) = 104

(* C17: in the pay-period rows the first payroll_period is 01, and the
   payroll_period of every later row is 01 when its payroll_year (the year of
   its end date) differs from that of the row before, and one more than the
   payroll_period of the row before otherwise. *)
C17_PeriodResets ==
  PayPeriodDone =>
    LET rows == export.rows
    IN \A k \in 1..Len(rows) :
         StrToInt(rows[k].payroll_period)
           = (IF k = 1 \/ rows[k].payroll_year # rows[k - 1].payroll_year
              THEN 1
              ELSE StrToInt(rows[k - 1].payroll_period) + 1)

(* C18: in the weekly (biweekly) pay-period rows the first period begins on
   2024-01-01, consecutive rows begin exactly 7 (14) days apart and each row
   ends 6 (13) days after it begins; the weekly rows for one year carry the
   payroll_period values 01 .. 52 in order and the payroll_year 2024. *)
C18_WeeklyWindows ==
  (PayPeriodDone /\ (ExportIs("weekly") \/ ExportIs("biweekly"))) =>
    LET rows == export.rows
        step == IF ExportIs("weekly") THEN 7 ELSE 14
    IN /\ rows[1].period_begin_date = Chars("20240101")
       /\ \A k \in 1..Len(rows) :
            /\ OrdinalOf(rows[k].period_end_date)
                 = OrdinalOf(rows[k].period_begin_date) + step - 1
            /\ k > 1 => OrdinalOf(rows[k].period_begin_date)
                          = OrdinalOf(rows[k - 1].period_begin_date) + step
       /\ (ExportIs("weekly") /\ export.num_years = 1) =>
            /\ Len(rows) = 52
            /\ \A k \in 1..52 :
                 /\ rows[k].payroll_period = Zfill(IntToStr(k), 2)
                 /\ rows[k].payroll_year = Chars("2024")

\* the weekly schedule for one year, generated: its last row is period 52
C18_Witness ==
  /\ PayPeriodDone
  /\ ExportIs("weekly")
  /\ export.num_years = 1
  /\ export.rows[52].payroll_period = <<"5", "2">>
  /\ export.rows[52].period_begin_date = Chars("20241223")
  /\ export.rows[52].period_end_date = Chars("20241229")

(* C19: pay-date generation for a semimonthly or a monthly area is rejected
   with HTTP 400 and yields no rows. *)
C19_PayDateRejected ==
  (PayDateDone /\ (ExportIs("semimonthly") \/ ExportIs("monthly"))) =>
    export.status = "HTTP 400" /\ export.rows = <<>>

\* pay dates have been requested for a semimonthly area
C19_Witness ==
  /\ PayDateDone
  /\ ExportIs("semimonthly")
  /\ export.status = "HTTP 400"

(* C20: the first pay date generated for a weekly or biweekly area falls on
   the area's pay weekday and is not before the anchor 2024-01-01, for every
   payday from sunday to saturday. *)
C20_FirstPayDateFromAnchor ==
  (PayDateDone /\ export.status = "ok" /\ export.area.payDay # None) =>
    LET first == ParseDate(export.rows[1].date)
    IN /\ <<(weekday(first) + 1) % 7>> = PAYDAY_TO_WEEKDAY(export.area.payDay)
       /\ toordinal(first) >= toordinal(parse_anchor(PAY_DATE_ANCHOR))


----------------------------------------------------------------------------
(* Catalog validation *)

\* the document has a question without id, text or type, or two questions
\* with one id
Defective(doc) ==
  \/ \E k \in 1..Len(doc.questions) :
       LET q == doc.questions[k]
       IN q.id = None \/ q.text = None \/ q.type = None
  \/ \E j, k \in 1..Len(doc.questions) :
       j < k /\ doc.questions[j].id = doc.questions[k].id

(* C21: a catalog document with a duplicate question id or a question without
   id, text or type is rejected by every operation that loads it (a save, an
   upload, a load of the current file, a router module's load of its catalog
   file), so no question of it is served, and the rejected operation leaves
   the stored files as they were. *)
C21_DefectiveRejected ==
  [][(config'.op # "none" /\ Defective(config'.given))
       => /\ config'.result # "ok"
          /\ config'.loaded = <<>>
          /\ config'.original = config.original
          /\ config'.current = config.current]_vars


----------------------------------------------------------------------------
(* The session layer *)

\* the session can be loaded
SessionExists(st) == LoadState(st) # <<>>

\* the answers of the state a request would load
SessionAnswers(st) == LoadState(st)[1].answers

(* C22: over every step of a session (a start, the arrival of an answer, the
   advance of the master graph on it, a module transition, a restart that
   keeps the session), every key of the session's answers before the step is
   a key of its answers after the step. *)
C22_AnswersGrow ==
  [][(SessionExists(store) /\ SessionExists(store'))
       => DOMAIN SessionAnswers(store) \subseteq DOMAIN SessionAnswers(store')]_vars

\* the payroll module has completed and the session has moved on to the
\* payment module with an answer to it, the payroll answers still there
C22_Witness ==
  /\ module = "session"
  /\ SessionExists(store)
  /\ LoadState(store)[1].completed_modules = <<Chars("payroll_area")>>
  /\ LoadState(store)[1].current_module = Chars("payment_method")
  /\ Chars("q1_payment_method_p") \in DOMAIN SessionAnswers(store)
  /\ Chars("q1_frequencies") \in DOMAIN SessionAnswers(store)

(* C23: when a request of submit_answer runs from its load to its response,
   the stored state afterwards holds the submitted answer under its question
   id and every other answer the session held just before with its value,
   also when another request for the session is in flight: no answer is lost
   to an overwrite from a stale state. *)
C23_NoLostAnswer ==
  [][\A r \in 1..MaxRequests :
       (/\ store.requests[r].pc = "awaiting"
        /\ store'.requests[r].pc = "idle"
        /\ store'.status = "ok")
         => LET req == store.requests[r]
                before == SessionAnswers(store)
                after == SessionAnswers(store')
            IN /\ req.question_id \in DOMAIN after
               /\ after[req.question_id] = req.answer
               /\ \A k \in DOMAIN before \ {req.question_id} :
                    k \in DOMAIN after /\ after[k] = before[k]]_vars

\* two requests were in flight together, all requests have been answered and
\* the two answers submitted since the start are both stored
C23_Witness ==
  /\ module = "session"
  /\ store.overlapped
  /\ \A r \in 1..MaxRequests : store.requests[r].pc = "idle"
  /\ SessionExists(store)
  /\ Chars("q1_weekly_pattern") \in DOMAIN SessionAnswers(store)
  /\ Chars("q1_weekly_payday") \in DOMAIN SessionAnswers(store)
  /\ Cardinality(DOMAIN SessionAnswers(store)) = 2


(* C24: a schedule file downloaded for a session (pay periods or pay dates)
   has rows for every payroll area of the session: each area's calendarId
   is the period_parameters of some row. *)
C24_EveryAreaScheduled ==
  (/\ module = "export"
   /\ export.file \in {"download pay-period", "download pay-date"}
   /\ export.status = "ok")
    => \A k \in 1..Len(payroll_areas) :
         \E i \in 1..Len(export.rows) :
           export.rows[i].period_parameters = payroll_areas[k].calendarId


----------------------------------------------------------------------------
(* Progress of the guided payroll session *)

\* the questions required under answer set a: q1_frequencies, the pattern
\* (unless monthly) and payday of each selected frequency, and the questions
\* of each combo of get_calendar_combos(a)
RequiredIds(a) ==
  LET F == Frequencies(a)
      C == get_calendar_combos(a)
  IN {Chars("q1_frequencies")}
     \cup {PaydayId(F[i]) : i \in 1..Len(F)}
     \cup {PatternId(F[i]) : i \in {j \in 1..Len(F) : F[j] # Chars("monthly")}}
     \cup UNION {{RequiredOfCombo(a, C[i])[k] : k \in 1..Len(RequiredOfCombo(a, C[i]))} :
                   i \in 1..Len(C)}

\* the remaining required questions: required and unanswered
Remaining(a) == {q \in RequiredIds(a) : ~Answered(a, q)}

\* the step answers the open question of a payroll session
GuidedAnswer == module = "payroll_area" /\ Started /\ answers' # answers

(* C25 as stated: every step that answers the open payroll question leaves
   fewer remaining required questions than before, unless it completes the
   session. *)
C25_StrictlyReduces ==
  [][GuidedAnswer =>
       \/ done'
       \/ Cardinality(Remaining(answers')) < Cardinality(Remaining(answers))]_vars

(* C25: every step that answers the open payroll question takes that question
   out of the remaining required questions, of which it was one; the number
   of remaining questions falls by exactly one,
   except that the answer to q1_frequencies replaces the one remaining
   question by at least three (by none when no frequency is selected), and
   a business answer 'yes' or a geographic answer 'multiple' leaves the
   number as it was. *)
C25_ReducesUnlessRevealing ==
  [][GuidedAnswer =>
       LET q == current_question_id
           before == Cardinality(Remaining(answers))
           after == Cardinality(Remaining(answers'))
       IN /\ q \in Remaining(answers)
          /\ q \notin Remaining(answers')
          /\ IF q = Chars("q1_frequencies")
             THEN /\ before = 1
                  /\ after = 0 \/ after >= 3
                  /\ after = 0 <=> Frequencies(answers') = <<>>
             ELSE IF answers'[q] \in {StrV(Chars("yes")), StrV(Chars("multiple"))}
             THEN after = before
             ELSE after = before - 1]_vars

\* the business question of a combo has been answered 'yes' and the router
\* asks for the names: as many questions remain as before the answer
C25_Witness ==
  LET C == get_calendar_combos(answers)
  IN /\ module = "payroll_area"
     /\ FrequenciesDone(answers)
     /\ Len(C) = 1
     /\ Is(answers, BusinessId(C[1]), "yes")
     /\ current_question_id = BusinessNamesId(C[1])
     /\ Cardinality(Remaining(answers)) = 2


(* C26: when a payroll session is complete and the answer to q1_frequencies,
   to a pattern question or to a payday question is overwritten with another
   value, the router still reports completion: it asks no question again. *)
C26_NoRetrigger ==
  [][(/\ module = "payroll_area"
      /\ done
      /\ DOMAIN answers' = DOMAIN answers
      /\ \E k \in DOMAIN answers :
           StartsWith(k, Chars("q1_")) /\ answers'[k] # answers[k])
       => done' /\ current_question_id' = None]_vars


----------------------------------------------------------------------------
(* C27: the router and the generation are pure *)

\* the codes and descriptions of a list of areas
CodesAndDescriptions(areas) ==
  [k \in 1..Len(areas) |-> <<areas[k].code, areas[k].description>>]

\* what an invocation returns depends on the answers alone
OutputOfAnswers ==
  (module = "payroll_area" /\ Started) =>
     /\ current_question_id = determine_next_question(answers)[1]
     /\ done = (current_question_id = None)
     /\ done => CodesAndDescriptions(payroll_areas)
                  = CodesAndDescriptions(generate_payroll_areas(answers))

\* a step changes the answers at one key at most, the one submitted
OnlySubmittedKey ==
  /\ DOMAIN answers \subseteq DOMAIN answers'
  /\ \E k \in DOMAIN answers' :
       \A j \in DOMAIN answers' \ {k} : j \in DOMAIN answers /\ answers'[j] = answers[j]

----------------------------------------------------------------------------
(* C28: module data round-trips through save_module and load_module *)

\* the keyword arguments of the upload of the last save_module call
UploadOfLastSave ==
  [company_code |-> storage.triple[2], company_name |-> storage.triple[1],
   content_type |-> storage.triple[3],
   document_bytes |-> json_dumps(storage.saved[storage.triple]),
   mime_type |-> Chars("application/json")]

\* C28: load_module of a (customer, company code, module) that no save_module
\* call named returns the empty dict, and of one that was saved returns the data
\* of the last save for it, whatever was saved for other triples in between;
\* a save_module call that returns has returned the URL of the upload service
\* and has made one upload, whose document is the serialized data and which
\* names the company code, the customer and the module of the call
C28_RoundTrip ==
  /\ [](module = "storage" /\ storage.op = "load" =>
          storage.loaded = (IF storage.triple \in DOMAIN storage.saved
                            THEN storage.saved[storage.triple]
                            ELSE DictV(<<>>)))
  /\ [](module = "storage" /\ storage.op = "save" /\ storage.status = "ok" =>
          /\ storage.url = UPLOAD_URL
          /\ storage.uploads # <<>>
          /\ storage.uploads[Len(storage.uploads)] = UploadOfLastSave)
  /\ [][module = "storage" /\ storage'.op = "save" /\ storage'.status = "ok" =>
          Len(storage'.uploads) = Len(storage.uploads) + 1]_vars

\* C28 happens: the test's payload was saved for a triple, another document was
\* saved for another triple, and the first triple is loaded
C28_Witness ==
  /\ module = "storage"
  /\ storage.op = "load"
  /\ storage.saves = 2
  /\ Len(storage.uploads) = 2
  /\ storage.triple \in DOMAIN storage.saved
  /\ storage.loaded = module_payload
  /\ \E tr \in DOMAIN storage.saved : storage.saved[tr] = OtherPayload


----------------------------------------------------------------------------
(* C29: the payment router returns the first unanswered eligible question *)

\* the question at position i of the catalog is unanswered and eligible: it has
\* no showIf, or its parent is answered with the answer the showIf names
Eligible(a, i) ==
  /\ QUESTIONS[i].id \notin DOMAIN a
  /\ \/ QUESTIONS[i].showIf.questionId = None
     \/ /\ QUESTIONS[i].showIf.questionId \in DOMAIN a
        /\ a[QUESTIONS[i].showIf.questionId] = StrV(QUESTIONS[i].showIf.answerId)

EligiblePositions(a) == {i \in 1..Len(QUESTIONS) : Eligible(a, i)}

\* C29: after every invocation of a payment-method session, whatever was
\* submitted and in whatever order, the question returned is the one at the
\* least catalog position that is unanswered and eligible, and the router
\* reports completion with no question exactly when no position is
C29_FirstEligible ==
  (module = "payment_method" /\ Started) =>
     IF EligiblePositions(answers) = {}
     THEN current_question_id = None /\ done
     ELSE /\ ~done
          /\ \E i \in EligiblePositions(answers) :
               /\ \A j \in EligiblePositions(answers) : i <= j
               /\ current_question_id = QUESTIONS[i].id
               /\ current_question = QUESTIONS[i]

\* C29 happens: P is answered "no" with one of its detail questions left
\* unanswered, Q is answered "yes", and the router returns Q's first detail
\* question, passing over P's
C29_Witness ==
  /\ module = "payment_method"
  /\ Is(answers, Chars("q1_payment_method_p"), "no")
  /\ ~Answered(answers, Chars("q1_p_house_banks"))
  /\ Is(answers, Chars("q2_payment_method_q"), "yes")
  /\ current_question_id = Chars("q2_q_volume")


----------------------------------------------------------------------------
(* C30: the combo key and the (frequency, pattern, payday) triple *)

\* C30: two calendar combos with the same key have the same frequency, pattern
\* and payday, whether the two are combos of one answer set or of the answer
\* sets before and after a submission
C30_CollisionFree ==
  [][module = "payroll_area" =>
       \A i \in 1..Len(get_calendar_combos(answers)),
          j \in 1..Len(get_calendar_combos(answers')) :
            get_calendar_combos(answers)[i].key = get_calendar_combos(answers')[j].key
              => SameTriple(get_calendar_combos(answers)[i],
                            get_calendar_combos(answers')[j])]_vars


----------------------------------------------------------------------------
(* C31: the two period numbers of a pay-period row *)

\* C31: every pay-period row carries the same number in prior_period_period
\* and in payroll_period, and the same year in prior_period_year and in
\* payroll_year, the year of the row's end date
C31_PriorTracksPeriod ==
  PayPeriodDone =>
    \A k \in 1..Len(export.rows) :
      /\ export.rows[k].prior_period_period = export.rows[k].payroll_period
      /\ export.rows[k].prior_period_year = export.rows[k].payroll_year
      /\ export.rows[k].payroll_year = SubSeq(export.rows[k].period_end_date, 1, 4)


----------------------------------------------------------------------------
(* C32: the semimonthly and monthly pay periods follow the calendar months *)

\* the k-th calendar month from the anchor month 2024-01 on, k = 0 for January 2024
MonthFromAnchor(k) == [year |-> 2024 + (k \div 12), month |-> (k % 12) + 1]

\* the YYYYMMDD text of the day d of the k-th month
DayOfMonthText(k, d) ==
  format_date_padded(Date(MonthFromAnchor(k).year, MonthFromAnchor(k).month, d))

\* the length of the k-th month by the calendar
MonthLength(k) == DaysInMonth(MonthFromAnchor(k).year, MonthFromAnchor(k).month)

\* C32: the semimonthly rows are, month after month from January 2024 on and
\* across the turn of the year, the 1st to the 15th and the 16th to the last
\* day of the month, and the monthly rows the 1st to the last day, the last day
\* being the length of the month by the calendar (29 in February 2024, 28 in
\* February 2025)
C32_CalendarMonths ==
  /\ (PayPeriodDone /\ ExportIs("semimonthly")) =>
       /\ Len(export.rows) = 24 * export.num_years
       /\ \A k \in 0..(12 * export.num_years - 1) :
            /\ export.rows[2 * k + 1].period_begin_date = DayOfMonthText(k, 1)
            /\ export.rows[2 * k + 1].period_end_date = DayOfMonthText(k, 15)
            /\ export.rows[2 * k + 2].period_begin_date = DayOfMonthText(k, 16)
            /\ export.rows[2 * k + 2].period_end_date = DayOfMonthText(k, MonthLength(k))
  /\ (PayPeriodDone /\ ExportIs("monthly")) =>
       /\ Len(export.rows) = 12 * export.num_years
       /\ \A k \in 0..(12 * export.num_years - 1) :
            /\ export.rows[k + 1].period_begin_date = DayOfMonthText(k, 1)
            /\ export.rows[k + 1].period_end_date = DayOfMonthText(k, MonthLength(k))

\* C32 happens: a semimonthly schedule of two years, whose second half of
\* February ends on the 29th in 2024 and on the 28th in 2025, and whose 25th row
\* begins on the first of January 2025
C32_Witness ==
  /\ PayPeriodDone
  /\ ExportIs("semimonthly")
  /\ Len(export.rows) = 48
  /\ export.rows[4].period_end_date = Chars("20240229")
  /\ export.rows[28].period_end_date = Chars("20250228")
  /\ export.rows[25].period_begin_date = Chars("20250101")


----------------------------------------------------------------------------
(* C33: the weekly and biweekly pay dates *)

\* the days between pay dates: 14 for a biweekly area, 7 for a weekly one and
\* for an area without a frequency
PayDateStep == IF ExportIs("biweekly") THEN 14 ELSE 7

\* C33: a pay-date schedule that was generated has 52 rows a year for a weekly
\* area and 26 for a biweekly one; every date is 7 (14) days after the one
\* before and on the weekday of the first; payroll_year is the year of the
\* date; payroll_period is 01 in the first row and in every row whose date is
\* in another year than the date before, and one more than in the row before
\* otherwise
C33_PayDates ==
  (PayDateDone /\ export.status = "ok") =>
    /\ Len(export.rows) = (IF PayDateStep = 7 THEN 52 ELSE 26) * export.num_years
    /\ \A k \in 1..Len(export.rows) :
         /\ export.rows[k].payroll_year = SubSeq(export.rows[k].date, 1, 4)
         /\ weekday(ParseDate(export.rows[k].date))
              = weekday(ParseDate(export.rows[1].date))
         /\ k > 1 => OrdinalOf(export.rows[k].date)
                       = OrdinalOf(export.rows[k - 1].date) + PayDateStep
         /\ StrToInt(export.rows[k].payroll_period)
              = (IF k = 1 \/ SubSeq(export.rows[k].date, 1, 4)
                               # SubSeq(export.rows[k - 1].date, 1, 4)
                 THEN 1
                 ELSE StrToInt(export.rows[k - 1].payroll_period) + 1)

\* C33 happens: the weekly Friday schedule of two years starts on 2023-12-29;
\* its period restarts on 2024-01-05 and again on 2025-01-03, after 52 periods
C33_Witness ==
  /\ PayDateDone
  /\ ExportIs("weekly")
  /\ export.area.payDay = Chars("friday")
  /\ Len(export.rows) = 104
  /\ export.rows[1].date = Chars("20231229") /\ export.rows[1].payroll_period = Chars("01")
  /\ export.rows[2].date = Chars("20240105") /\ export.rows[2].payroll_period = Chars("01")
  /\ export.rows[53].payroll_period = Chars("52")
  /\ export.rows[54].date = Chars("20250103") /\ export.rows[54].payroll_period = Chars("01")


----------------------------------------------------------------------------
(* C34: a session that is not done has a question to present *)

\* C34: the state a session holds after start_session or submit_answer, which
\* is what master_router returned, has a current_question_id whenever it is
\* not done
C34_QuestionUnlessDone ==
  (module = "session" /\ SessionExists(store)) =>
     (LoadState(store)[1].done \/ LoadState(store)[1].current_question_id # None)


----------------------------------------------------------------------------
(* C35: the stored areas and the answers of a session *)

\* C35: in a session whose completed_modules hold payroll_area the stored
\* payroll_areas are generate_payroll_areas of the answers the session holds
C35_AreasOfCurrentAnswers ==
  (/\ module = "session"
   /\ SessionExists(store)
   /\ IsCompleted(LoadState(store)[1].completed_modules, Chars("payroll_area")))
    => LoadState(store)[1].payroll_areas
         = generate_payroll_areas(SessionAnswers(store))


----------------------------------------------------------------------------
(* C36: the calendarId and the calendar combo *)

\* C36: two areas of the session with the same calendarId are areas of the
\* same calendar combo: they have the same frequency, pattern and payday
C36_CalendarIdNamesCombo ==
  module = "export" =>
    \A i \in 1..Len(payroll_areas), j \in 1..Len(payroll_areas) :
      payroll_areas[i].calendarId = payroll_areas[j].calendarId
        => /\ payroll_areas[i].frequency = payroll_areas[j].frequency
           /\ payroll_areas[i].periodPattern = payroll_areas[j].periodPattern
           /\ payroll_areas[i].payDay = payroll_areas[j].payDay


----------------------------------------------------------------------------
(* C37: the owner of a stored session *)

\* C37: a request of a caller other than the user of the session's database
\* row (no user, or another user) leaves the row as it is: its state and its
\* user_id
C37_OnlyOwnerWrites ==
  [][(/\ module = "owned"
      /\ store.db # <<>>
      /\ store'.op \in {"start", "answer", "save", "load", "delete"}
      /\ store'.caller # <<store.db[1].user_id>>)
       => store'.db = store.db]_vars


----------------------------------------------------------------------------
(* C38: the periods of the two schedule files *)

\* the (payroll_year, payroll_period) pairs of the rows of a file
PeriodsOf(rows) == {<<rows[i].payroll_year, rows[i].payroll_period>> : i \in 1..Len(rows)}

\* C38: the pay dates generated for a weekly or biweekly area name the periods
\* that the pay periods of the same area and years name
C38_SamePeriods ==
  (PayDateDone /\ export.status = "ok")
    => PeriodsOf(export.rows)
         = PeriodsOf(generate_pay_period_csv(export.area, export.num_years))


----------------------------------------------------------------------------
(* C39: the areas of a completed questionnaire *)

\* C39: when the router has reported completion on answers with a non-empty
\* frequency selection, every calendar combo has an area among the areas
\* generated
C39_AreaForEveryCombo ==
  (module = "payroll_area" /\ done /\ Frequencies(answers) # <<>>)
    => \A i \in 1..Len(get_calendar_combos(answers)) :
         \E k \in 1..Len(payroll_areas) :
           /\ payroll_areas[k].frequency = get_calendar_combos(answers)[i].frequency
           /\ payroll_areas[k].periodPattern = get_calendar_combos(answers)[i].pattern
           /\ payroll_areas[k].payDay = get_calendar_combos(answers)[i].payday


----------------------------------------------------------------------------
(* C40: the completion of the master graph *)

\* C40: the state of a started session is done only when payroll_area and
\* payment_method are both among its completed modules, and no module is
\* twice among them
C40_DoneWhenAllCompleted ==
  (module = "session" /\ SessionExists(store)) =>
    /\ LoadState(store)[1].done
         => /\ IsCompleted(LoadState(store)[1].completed_modules, Chars("payroll_area"))
            /\ IsCompleted(LoadState(store)[1].completed_modules, Chars("payment_method"))
    /\ \A i \in 1..Len(LoadState(store)[1].completed_modules),
          j \in 1..Len(LoadState(store)[1].completed_modules) :
            LoadState(store)[1].completed_modules[i]
              = LoadState(store)[1].completed_modules[j] => i = j

====
